---- MODULE Spec2Model ----
(***************************************************************************)
(* Pairing / commissioning protocol of the hydroponics firmware:           *)
(*   coordinator side : DiscoveryManager + PairingStateMachine             *)
(*   node side        : NodePairingFSM                                     *)
(* Times are milliseconds of millis().  TLC integers are 32 bit signed, so *)
(* the uint32 clock is kept modulo ClockMod = 2^30; every duration of the  *)
(* protocol is far below that.                                             *)
(***************************************************************************)
EXTENDS Integers, Sequences, FiniteSets, TLC

\* ------------------------------------------------------------------------
\* Program constants
\* ------------------------------------------------------------------------
DISCOVERY_TTL_MS == 30000
BINDING_TIMEOUT_MS == 10000
MAX_PERMIT_JOIN_MS == 300000
ADV_INTERVAL_MS == 100
ADV_JITTER_MS == 20
ADV_TIMEOUT_MS == 300000
NONCE_ROTATION_MS == 30000
CONFIRM_TIMEOUT_MS == 5000
PROTOCOL_VERSION == 2
STUCK_OFFER_MS == 1000

\* ------------------------------------------------------------------------
\* Bounds of the model
\* ------------------------------------------------------------------------
\* Capacity of the discovery table.  The firmware uses 32
\* (DiscoveryManager.h:9); the model keeps the same comparisons with a
\* table small enough to enumerate.
MAX_DISCOVERED_NODES == 2
\* The clock of a specification stops after MaxSteps of its steps.
MaxSteps == 2
\* approveNode is not called once nextTowerId has reached MaxTowerId.
MaxTowerId == 3

ClockMod == 2^30
ZeroMac == 0
coordinatorMac == 9
OtherCoordMac == 8
BroadcastMac == 255

\* Node addresses, and the values the random sources and the frames draw
Macs == {1, 2, 3}
Nonces == {0, 1}
Tokens == {0, 1}
TowerIds == 1..MaxTowerId

VARIABLES
    now,            \* millis()
    nodes,          \* DiscoveryManager::nodes
    state,          \* PairingStateMachine::state
    nextTowerId,    \* PairingStateMachine::nextTowerId
    permitJoinDl,   \* PairingStateMachine::permitJoinDl
    currentBinding, \* PairingStateMachine::currentBinding
    bindingActive,  \* PairingStateMachine::bindingActive
    fsm,            \* the fields of the node's NodePairingFSM
    nvs,            \* the node's TowerConfig (persistent store)
    net,            \* frames in flight between the node and the coordinator
    linked,         \* whether the two sides are wired to the radio
    last,           \* the last operation: name, argument, return value, outputs
    hist,           \* history kept for the properties
    wire            \* the codec: sender's message, byte buffer, receiver's message

coordVars == <<nodes, state, nextTowerId, permitJoinDl, currentBinding,
               bindingActive>>

nodeVars == <<fsm, nvs>>

vars == <<now, nodes, state, nextTowerId, permitJoinDl, currentBinding,
          bindingActive, fsm, nvs, net, linked, last, hist, wire>>

\* uint32 subtraction (now - start) of the firmware
U32Sub(a, b) == (a - b + ClockMod) % ClockMod

\* ------------------------------------------------------------------------
\* Deadline (SafeTimer.h)
\* ------------------------------------------------------------------------
DeadlineInit == [startMs |-> 0, durationMs |-> 0, active |-> FALSE]

DeadlineSet(t, durationMs) == [startMs |-> t, durationMs |-> durationMs, active |-> TRUE]

DeadlineClear(dl) == [dl EXCEPT !.active = FALSE]

expired(dl, t) == dl.active /\ U32Sub(t, dl.startMs) >= dl.durationMs

running(dl, t) == dl.active /\ ~expired(dl, t)

\* ------------------------------------------------------------------------
\* DiscoveryManager
\* ------------------------------------------------------------------------
\* The coordinator as a value: helpers take it and return the updated one.
\* out collects, in order, the callbacks fired and the frames handed to the
\* transport by the running operation.
Ctx ==
    [nodes |-> nodes, state |-> state, nextTowerId |-> nextTowerId,
     permitJoinDl |-> permitJoinDl, currentBinding |-> currentBinding,
     bindingActive |-> bindingActive, out |-> <<>>]

Emit(c, item) == [c EXCEPT !.out = Append(@, item)]

\* an entry seen exactly one TTL ago is taken as expired
isExpired_inclusive(node, now_ms) ==
    IF node.state = "BOUND" THEN FALSE
    ELSE U32Sub(now_ms, node.last_seen_ms) >= DISCOVERY_TTL_MS

isExpired(node, now_ms) ==
    IF node.state = "BOUND" THEN FALSE
    ELSE U32Sub(now_ms, node.last_seen_ms) > DISCOVERY_TTL_MS

\* index of the entry with this address, 0 when there is none (-1 in C++)
findNodeIndex(ns, mac) ==
    IF \E i \in 1..Len(ns) : ns[i].mac = mac
    THEN CHOOSE i \in 1..Len(ns) :
            /\ ns[i].mac = mac
            /\ \A j \in 1..(i - 1) : ns[j].mac # mac
    ELSE 0

getDiscoveredCount(ns, t) ==
    Cardinality({i \in 1..Len(ns) : ~isExpired(ns[i], t)})

hasCapacity_inclusive(ns, t) == getDiscoveredCount(ns, t) <= MAX_DISCOVERED_NODES

hasCapacity(ns, t) == getDiscoveredCount(ns, t) < MAX_DISCOVERED_NODES

RemoveAt(s, i) == SubSeq(s, 1, i - 1) \o SubSeq(s, i + 1, Len(s))

updateNodeState(c, mac, newState) ==
    LET idx == findNodeIndex(c.nodes, mac) IN
    IF idx = 0 THEN c
    ELSE IF c.nodes[idx].state = newState THEN c
    ELSE Emit([c EXCEPT !.nodes[idx].state = newState],
              [ev |-> "node-state-changed", mac |-> mac,
               old |-> c.nodes[idx].state, new |-> newState])

setOfferToken(c, mac, token) ==
    LET idx == findNodeIndex(c.nodes, mac) IN
    IF idx = 0 THEN c ELSE [c EXCEPT !.nodes[idx].offer_token = token]

removeNode(c, mac) ==
    LET idx == findNodeIndex(c.nodes, mac) IN
    IF idx = 0 THEN c ELSE [c EXCEPT !.nodes = RemoveAt(@, idx)]

clearAll(c) ==
    [c EXCEPT !.nodes = SelectSeq(@, LAMBDA n : n.state = "BOUND")]

RECURSIVE ExpiredEvents(_, _)
ExpiredEvents(ns, t) ==
    IF ns = <<>> THEN <<>>
    ELSE (IF isExpired(Head(ns), t)
          THEN <<[ev |-> "node-expired", mac |-> Head(ns).mac]>>
          ELSE <<>>) \o ExpiredEvents(Tail(ns), t)

\* clearExpired: the updated coordinator; the count removed is the number
\* of node-expired events it appended
clearExpired(c, t) ==
    [c EXCEPT !.nodes = SelectSeq(@, LAMBDA n : ~isExpired(n, t)),
              !.out = @ \o ExpiredEvents(c.nodes, t)]

NewNode(msg, rssi, t) ==
    [mac |-> msg.node_mac, device_type |-> msg.device_type,
     firmware_version |-> msg.firmware_version,
     capabilities |-> msg.capabilities,
     last_nonce |-> msg.nonce, last_sequence |-> msg.sequence_num,
     rssi |-> rssi, last_seen_ms |-> t,
     state |-> "DISCOVERED", offer_token |-> 0]

\* "same nonce (already processed this advertisement cycle)"
isDuplicate_ordered(node, msg) ==
    node.last_nonce = msg.nonce /\ node.last_sequence > msg.sequence_num

isDuplicate(node, msg) ==
    node.last_nonce = msg.nonce /\ node.last_sequence = msg.sequence_num

\* onAdvertisementReceived: [c |-> updated coordinator, ret |-> return value]
AdvertisementReceived(c, msg, rssi, t) ==
    LET idx == findNodeIndex(c.nodes, msg.node_mac) IN
    IF idx > 0 THEN
        IF isDuplicate(c.nodes[idx], msg)
        THEN [c |-> c, ret |-> FALSE]
        ELSE [c |-> Emit([c EXCEPT !.nodes[idx].last_nonce = msg.nonce,
                                   !.nodes[idx].last_sequence = msg.sequence_num,
                                   !.nodes[idx].last_seen_ms = t,
                                   !.nodes[idx].rssi = rssi,
                                   !.nodes[idx].firmware_version = msg.firmware_version,
                                   !.nodes[idx].capabilities = msg.capabilities,
                                   !.nodes[idx].device_type = msg.device_type],
                         [ev |-> "node-updated", mac |-> msg.node_mac]),
              ret |-> TRUE]
    ELSE IF ~hasCapacity(c.nodes, t) THEN [c |-> c, ret |-> FALSE]
    ELSE [c |-> Emit([c EXCEPT !.nodes = Append(@, NewNode(msg, rssi, t))],
                     [ev |-> "node-discovered", mac |-> msg.node_mac]),
          ret |-> TRUE]

\* ------------------------------------------------------------------------
\* History
\* ------------------------------------------------------------------------
\* seen[m] : the (nonce, sequence) pairs that produced a discovered/updated
\*           event for m since m's entry was created
\* dupEvent: an event was produced for a pair already in seen[m]
HistInit == [seen |-> [m \in Macs |-> {}], dupEvent |-> FALSE,
             timeoutRejects |-> 0, issued |-> {}]

Present(ns, m) == findNodeIndex(ns, m) > 0

\* entries that left the table lose their history
Forget(h, ns) ==
    [h EXCEPT !.seen = [m \in Macs |-> IF Present(ns, m) THEN @[m] ELSE {}]]

\* ------------------------------------------------------------------------
\* Operations
\* ------------------------------------------------------------------------
Frame(to, msg) == [to |-> to, msg |-> msg]

\* The record of the last operation.  It is kept where one side is studied
\* on its own; on the shared radio the frames in net are the record.
Record(op, arg, ret, out) ==
    IF linked THEN [op |-> "radio", arg |-> ZeroMac, ret |-> TRUE, out |-> <<>>]
    ELSE [op |-> op, arg |-> arg, ret |-> ret, out |-> out]

\* the frames of out that the transport took
OnAir(out) ==
    {Frame(out[i].to, out[i].msg) :
        i \in {j \in 1..Len(out) : out[j].ev = "send" /\ out[j].ok}}

\* rx: the frame the operation was called with, taken off the air
CommitRx(c, op, arg, ret, h, rx) ==
    /\ nodes' = c.nodes
    /\ state' = c.state
    /\ nextTowerId' = c.nextTowerId
    /\ permitJoinDl' = c.permitJoinDl
    /\ currentBinding' = c.currentBinding
    /\ bindingActive' = c.bindingActive
    /\ last' = Record(op, arg, ret, c.out)
    /\ hist' = Forget(h, c.nodes)
    /\ net' = IF linked THEN (net \ rx) \cup OnAir(c.out) ELSE net
    /\ UNCHANGED <<fsm, nvs, linked, wire>>

Commit(c, op, arg, ret, h) == CommitRx(c, op, arg, ret, h, {})

AdvMsg(m, n, s) ==
    [type |-> "ADVERTISEMENT", protocol_version |-> PROTOCOL_VERSION,
     node_mac |-> m, device_type |-> "TOWER", firmware_version |-> 65536,
     capabilities |-> 0, nonce |-> n, sequence_num |-> s]

AdvHist(h, r, msg) ==
    IF r.ret
    THEN [h EXCEPT !.seen[msg.node_mac] = @ \cup {<<msg.nonce, msg.sequence_num>>},
                   !.dupEvent = @ \/ (/\ Present(nodes, msg.node_mac)
                                      /\ <<msg.nonce, msg.sequence_num>>
                                            \in h.seen[msg.node_mac])]
    ELSE h

\* track: whether the history of accepted pairs is kept (it is in SpecDisc)
onAdvertisementReceived(msg, rssi, track) ==
    LET r == AdvertisementReceived(Ctx, msg, rssi, now) IN
    /\ CommitRx(r.c, "onAdvertisementReceived", msg.node_mac, r.ret,
                IF track THEN AdvHist(hist, r, msg) ELSE hist,
                {Frame(BroadcastMac, msg)})
    /\ UNCHANGED now

\* DiscoveryManager::tick
DiscoveryTick ==
    /\ Commit(clearExpired(Ctx, now), "discovery.tick", ZeroMac, TRUE, hist)
    /\ UNCHANGED now

\* millis() moves on
AdvanceTime(d, max) ==
    /\ now + d <= max
    /\ now' = (now + d) % ClockMod
    /\ last' = Record("millis", ZeroMac, TRUE, <<>>)
    /\ UNCHANGED <<coordVars, nodeVars, net, linked, hist, wire>>

\* an attempt never times out
isTimedOut_never(b, now_ms) == FALSE

\* ------------------------------------------------------------------------
\* PairingStateMachine
\* ------------------------------------------------------------------------
isTimedOut(b, now_ms) == U32Sub(now_ms, b.started_ms) > BINDING_TIMEOUT_MS

transitionTo(c, newState) == [c EXCEPT !.state = newState]

Send(c, to, msg, ok) == Emit(c, [ev |-> "send", to |-> to, msg |-> msg, ok |-> ok])

\* the counter moved on whatever the result
completeBinding_anyResult(c, result, t) ==
    IF ~c.bindingActive THEN c
    ELSE
    LET mac == c.currentBinding.node_mac
        found == findNodeIndex(c.nodes, mac) > 0
        c1 == [(IF found
                THEN updateNodeState(c, mac, IF result = "SUCCESS"
                                             THEN "BOUND" ELSE "FAILED")
                ELSE c)
                    EXCEPT !.nextTowerId = (@ + 1) % 65536]
        c2 == [c1 EXCEPT !.bindingActive = FALSE,
                         !.currentBinding.node_mac = ZeroMac,
                         !.currentBinding.offer_token = 0]
        c3 == transitionTo(c2, IF running(c2.permitJoinDl, t)
                               THEN "DISCOVERY_ACTIVE" ELSE "OPERATIONAL")
    IN  Emit(c3, [ev |-> "binding-completed", mac |-> mac, result |-> result,
                  tower_id |-> c.currentBinding.assigned_tower_id])

completeBinding(c, result, t) ==
    IF ~c.bindingActive THEN c
    ELSE
    LET mac == c.currentBinding.node_mac
        found == findNodeIndex(c.nodes, mac) > 0
        c1 == IF result = "SUCCESS"
              THEN [(IF found THEN updateNodeState(c, mac, "BOUND") ELSE c)
                        EXCEPT !.nextTowerId = (@ + 1) % 65536]
              ELSE IF found THEN updateNodeState(c, mac, "FAILED") ELSE c
        c2 == [c1 EXCEPT !.bindingActive = FALSE,
                         !.currentBinding.node_mac = ZeroMac,
                         !.currentBinding.offer_token = 0]
        c3 == transitionTo(c2, IF running(c2.permitJoinDl, t)
                               THEN "DISCOVERY_ACTIVE" ELSE "OPERATIONAL")
    IN  Emit(c3, [ev |-> "binding-completed", mac |-> mac, result |-> result,
                  tower_id |-> c.currentBinding.assigned_tower_id])

RejectMsg(reason, token) ==
    [type |-> "REJECT", sender_mac |-> coordinatorMac, reason_code |-> reason,
     offer_token |-> token]

\* the Reject built after the attempt was torn down
handleBindingTimeout_late(c, t, ok) ==
    IF ~c.bindingActive THEN c
    ELSE LET d == completeBinding(c, "TIMEOUT", t) IN
         Send(d, d.currentBinding.node_mac,
              RejectMsg("TIMEOUT", d.currentBinding.offer_token), ok)

handleBindingTimeout(c, t, ok) ==
    IF ~c.bindingActive THEN c
    ELSE completeBinding(
            Send(c, c.currentBinding.node_mac,
                 RejectMsg("TIMEOUT", c.currentBinding.offer_token), ok),
            "TIMEOUT", t)

\* the table is left as it is
disablePermitJoinCall_keepTable(c, t) ==
    LET c1 == IF c.state = "BINDING" /\ c.bindingActive
              THEN completeBinding(c, "INTERNAL_ERROR", t) ELSE c
        c2 == transitionTo([c1 EXCEPT !.permitJoinDl = DeadlineClear(@)],
                           "OPERATIONAL")
    IN  Emit(c2, [ev |-> "permit-join-changed", enabled |-> FALSE,
                  remaining_ms |-> 0])

disablePermitJoinCall(c, t) ==
    LET c1 == IF c.state = "BINDING" /\ c.bindingActive
              THEN completeBinding(c, "INTERNAL_ERROR", t) ELSE c
        c2 == transitionTo([c1 EXCEPT !.permitJoinDl = DeadlineClear(@)],
                           "OPERATIONAL")
    IN  Emit(clearAll(c2), [ev |-> "permit-join-changed", enabled |-> FALSE,
                            remaining_ms |-> 0])

\* the permit-join deadline is not looked at
tickCall_noWindow(c, t, ok) ==
    IF c.state = "BINDING" /\ c.bindingActive /\ isTimedOut(c.currentBinding, t)
    THEN handleBindingTimeout(c, t, ok)
    ELSE c

tickCall(c, t, ok) ==
    LET c1 == IF c.state = "DISCOVERY_ACTIVE" /\ expired(c.permitJoinDl, t)
              THEN disablePermitJoinCall(c, t) ELSE c
    IN  IF c1.state = "BINDING" /\ c1.bindingActive
           /\ isTimedOut(c1.currentBinding, t)
        THEN handleBindingTimeout(c1, t, ok)
        ELSE c1


\* the window is opened in every state
enablePermitJoinCall_whileBinding(c, duration_ms, t) ==
    LET d == IF duration_ms < MAX_PERMIT_JOIN_MS THEN duration_ms
             ELSE MAX_PERMIT_JOIN_MS IN
    [c |-> Emit(transitionTo([c EXCEPT !.permitJoinDl = DeadlineSet(t, d)],
                             "DISCOVERY_ACTIVE"),
                [ev |-> "permit-join-changed", enabled |-> TRUE,
                 remaining_ms |-> d]),
     ret |-> TRUE]

enablePermitJoinCall(c, duration_ms, t) ==
    LET d == IF duration_ms < MAX_PERMIT_JOIN_MS THEN duration_ms
             ELSE MAX_PERMIT_JOIN_MS IN
    IF c.state # "OPERATIONAL" /\ c.state # "DISCOVERY_ACTIVE"
    THEN [c |-> c, ret |-> FALSE]
    ELSE [c |-> Emit(transitionTo([c EXCEPT !.permitJoinDl = DeadlineSet(t, d)],
                                  "DISCOVERY_ACTIVE"),
                     [ev |-> "permit-join-changed", enabled |-> TRUE,
                      remaining_ms |-> d]),
          ret |-> TRUE]

OfferMsg(towerId, nonce, token) ==
    [type |-> "OFFER", protocol_version |-> PROTOCOL_VERSION,
     coord_mac |-> coordinatorMac, offered_tower_id |-> towerId,
     nonce_echo |-> nonce, offer_token |-> token, channel |-> 0]

\* the two entry checks of approveNode: discovery mode, no binding active
approveAllowed_anyWindow(c) == c.state # "OPERATIONAL"

approveAllowed(c) == c.state = "DISCOVERY_ACTIVE" /\ ~c.bindingActive

\* the attempt left open when the Offer could not be sent
approveNodeCall_noRollback(c, mac, token, t, ok) ==
    LET idx == findNodeIndex(c.nodes, mac) IN
    IF ~approveAllowed(c) THEN [c |-> c, ret |-> FALSE]
    ELSE IF idx = 0 THEN [c |-> c, ret |-> FALSE]
    ELSE IF c.nodes[idx].state = "BOUND" THEN [c |-> c, ret |-> FALSE]
    ELSE
    LET c1 == [c EXCEPT !.currentBinding =
                            [node_mac |-> mac, offer_token |-> token,
                             assigned_tower_id |-> c.nextTowerId,
                             started_ms |-> t, accept_received |-> FALSE],
                        !.bindingActive = TRUE]
        c3 == Send(setOfferToken(updateNodeState(c1, mac, "OFFER_SENT"), mac, token),
                   mac, OfferMsg(c.nextTowerId, c.nodes[idx].last_nonce, token), ok)
    IN  IF ~ok
        THEN [c |-> updateNodeState(c3, mac, "DISCOVERED"), ret |-> FALSE]
        ELSE [c |-> Emit(transitionTo(c3, "BINDING"),
                         [ev |-> "binding-started", mac |-> mac]),
              ret |-> TRUE]

\* BINDING is entered before the Offer is sent and kept when the send fails
approveNodeCall_earlyBinding(c, mac, token, t, ok) ==
    LET r == approveNodeCall_noRollback(c, mac, token, t, TRUE) IN
    IF r.ret /\ ~ok
    THEN [c |-> [r.c EXCEPT !.bindingActive = FALSE], ret |-> FALSE]
    ELSE r

approveNodeCall(c, mac, token, t, ok) ==
    LET idx == findNodeIndex(c.nodes, mac) IN
    IF ~approveAllowed(c) THEN [c |-> c, ret |-> FALSE]
    ELSE IF idx = 0 THEN [c |-> c, ret |-> FALSE]
    ELSE IF c.nodes[idx].state = "BOUND" THEN [c |-> c, ret |-> FALSE]
    ELSE
    LET offer == OfferMsg(c.nextTowerId, c.nodes[idx].last_nonce, token)
        c1 == [c EXCEPT !.currentBinding =
                            [node_mac |-> mac, offer_token |-> token,
                             assigned_tower_id |-> c.nextTowerId,
                             started_ms |-> t, accept_received |-> FALSE],
                        !.bindingActive = TRUE]
        c2 == setOfferToken(updateNodeState(c1, mac, "OFFER_SENT"), mac, token)
        c3 == Send(c2, mac, offer, ok)
    IN  IF ~ok
        THEN [c |-> updateNodeState([c3 EXCEPT !.bindingActive = FALSE],
                                    mac, "DISCOVERED"),
              ret |-> FALSE]
        ELSE [c |-> Emit(transitionTo(c3, "BINDING"),
                         [ev |-> "binding-started", mac |-> mac]),
              ret |-> TRUE]

rejectNodeCall(c, mac, t, ok) ==
    LET idx == findNodeIndex(c.nodes, mac) IN
    IF idx = 0 THEN [c |-> c, ret |-> FALSE]
    ELSE
    LET c1 == Send(c, mac, RejectMsg("USER_REJECTED", c.nodes[idx].offer_token), ok) IN
    IF ~ok THEN [c |-> c1, ret |-> FALSE]
    ELSE
    LET c2 == updateNodeState(c1, mac, "REJECTED")
        c3 == IF c2.bindingActive /\ c2.currentBinding.node_mac = mac
              THEN completeBinding(c2, "NODE_REJECTED", t) ELSE c2
    IN  [c |-> removeNode(c3, mac), ret |-> TRUE]

\* the Confirm carrying the id after the one of the attempt
ConfirmMsg_next(towerId) ==
    [type |-> "CONFIRM", coord_mac |-> coordinatorMac, tower_id |-> towerId + 1,
     config_flags |-> 0]

ConfirmMsg(towerId) ==
    [type |-> "CONFIRM", coord_mac |-> coordinatorMac, tower_id |-> towerId,
     config_flags |-> 0]

\* the validation of an Accept against the attempt: sender, token, id
acceptMatches_noToken(b, msg) ==
    /\ b.node_mac = msg.node_mac
    /\ msg.accepted_tower_id = b.assigned_tower_id

acceptMatches(b, msg) ==
    /\ b.node_mac = msg.node_mac
    /\ msg.offer_token = b.offer_token
    /\ msg.accepted_tower_id = b.assigned_tower_id

\* the checks on mac and short id only
PairingAcceptReceived_noToken(c, msg, t, ok) ==
    IF c.state # "BINDING" \/ ~c.bindingActive THEN [c |-> c, ret |-> FALSE]
    ELSE IF c.currentBinding.node_mac # msg.node_mac
            \/ msg.accepted_tower_id # c.currentBinding.assigned_tower_id
    THEN [c |-> c, ret |-> FALSE]
    ELSE
    LET c3 == Send(updateNodeState([c EXCEPT !.currentBinding.accept_received = TRUE],
                                   msg.node_mac, "BINDING"),
                   msg.node_mac, ConfirmMsg(c.currentBinding.assigned_tower_id), ok)
    IN  IF ~ok
        THEN [c |-> completeBinding(c3, "INTERNAL_ERROR", t), ret |-> FALSE]
        ELSE [c |-> completeBinding(c3, "SUCCESS", t), ret |-> TRUE]

\* the Confirm is sent and the attempt is left open
PairingAcceptReceived_open(c, msg, t, ok) ==
    IF c.state # "BINDING" \/ ~c.bindingActive THEN [c |-> c, ret |-> FALSE]
    ELSE IF ~acceptMatches(c.currentBinding, msg) THEN [c |-> c, ret |-> FALSE]
    ELSE [c |-> Send([c EXCEPT !.currentBinding.accept_received = TRUE],
                     msg.node_mac,
                     ConfirmMsg(c.currentBinding.assigned_tower_id), ok),
          ret |-> ok]

PairingAcceptReceived(c, msg, t, ok) ==
    IF c.state # "BINDING" \/ ~c.bindingActive THEN [c |-> c, ret |-> FALSE]
    ELSE IF ~acceptMatches(c.currentBinding, msg) THEN [c |-> c, ret |-> FALSE]
    ELSE
    LET c1 == [c EXCEPT !.currentBinding.accept_received = TRUE]
        c2 == updateNodeState(c1, msg.node_mac, "BINDING")
        c3 == Send(c2, msg.node_mac,
                   ConfirmMsg(c2.currentBinding.assigned_tower_id), ok)
    IN  IF ~ok
        THEN [c |-> completeBinding(c3, "INTERNAL_ERROR", t), ret |-> FALSE]
        ELSE [c |-> completeBinding(c3, "SUCCESS", t), ret |-> TRUE]

\* the token of the Abort is not looked at
PairingAbortReceived_anyToken(c, msg, t) ==
    LET found == findNodeIndex(c.nodes, msg.sender_mac) > 0
        mine == c.bindingActive /\ c.currentBinding.node_mac = msg.sender_mac
        c1 == IF mine THEN completeBinding(c, "NODE_ABORTED", t) ELSE c
        c2 == IF found
              THEN removeNode(updateNodeState(c1, msg.sender_mac, "FAILED"),
                              msg.sender_mac)
              ELSE c1
    IN  [c |-> c2, ret |-> TRUE]

PairingAbortReceived(c, msg, t) ==
    LET found == findNodeIndex(c.nodes, msg.sender_mac) > 0
        mine == c.bindingActive /\ c.currentBinding.node_mac = msg.sender_mac
    IN
    IF mine /\ c.currentBinding.offer_token # 0
            /\ msg.offer_token # c.currentBinding.offer_token
    THEN [c |-> c, ret |-> FALSE]
    ELSE
    LET c1 == IF mine THEN completeBinding(c, "NODE_ABORTED", t) ELSE c
        c2 == IF found
              THEN removeNode(updateNodeState(c1, msg.sender_mac, "FAILED"),
                              msg.sender_mac)
              ELSE c1
    IN  [c |-> c2, ret |-> TRUE]

\* --- history of the binding attempt ---
\* timeoutRejects: Reject(TIMEOUT) frames handed to the transport since the
\* last attempt was opened
CoordHist(h, c, opened) ==
    [h EXCEPT !.timeoutRejects =
        (IF opened THEN 0 ELSE @)
        + Cardinality({i \in 1..Len(c.out) :
                        /\ c.out[i].ev = "send"
                        /\ c.out[i].msg.type = "REJECT"
                        /\ c.out[i].msg.reason_code = "TIMEOUT"})]

\* --- the operations as actions ---
tick(ok) ==
    LET c == tickCall(Ctx, now, ok) IN
    /\ Commit(c, "tick", ZeroMac, TRUE, CoordHist(hist, c, FALSE))
    /\ UNCHANGED now

enablePermitJoin(duration_ms) ==
    LET r == enablePermitJoinCall(Ctx, duration_ms, now) IN
    /\ Commit(r.c, "enablePermitJoin", ZeroMac, r.ret, hist)
    /\ UNCHANGED now

disablePermitJoin ==
    /\ Commit(disablePermitJoinCall(Ctx, now), "disablePermitJoin", ZeroMac,
              TRUE, hist)
    /\ UNCHANGED now

approveNode(mac, token, ok) ==
    LET r == approveNodeCall(Ctx, mac, token, now, ok) IN
    /\ nextTowerId < MaxTowerId
    /\ Commit(r.c, "approveNode", mac, r.ret, CoordHist(hist, r.c, r.ret))
    /\ UNCHANGED now

rejectNode(mac, ok) ==
    LET r == rejectNodeCall(Ctx, mac, now, ok) IN
    /\ Commit(r.c, "rejectNode", mac, r.ret, hist)
    /\ UNCHANGED now

setNextTowerId(towerId) ==
    /\ Commit([Ctx EXCEPT !.nextTowerId = towerId], "setNextTowerId", ZeroMac,
              TRUE, hist)
    /\ UNCHANGED now

AcceptMsg(mac, token, towerId) ==
    [type |-> "ACCEPT", node_mac |-> mac, offer_token |-> token,
     accepted_tower_id |-> towerId]

onPairingAcceptReceived(msg, ok) ==
    LET r == PairingAcceptReceived(Ctx, msg, now, ok) IN
    /\ CommitRx(r.c, "onPairingAcceptReceived", msg.node_mac, r.ret, hist,
                {Frame(coordinatorMac, msg)})
    /\ UNCHANGED now

AbortMsg(mac, reason, token) ==
    [type |-> "ABORT", sender_mac |-> mac, reason_code |-> reason,
     offer_token |-> token]

onPairingAbortReceived(msg) ==
    LET r == PairingAbortReceived(Ctx, msg, now) IN
    /\ CommitRx(r.c, "onPairingAbortReceived", msg.sender_mac, r.ret, hist,
                {Frame(coordinatorMac, msg)})
    /\ UNCHANGED now

\* ------------------------------------------------------------------------
\* NodePairingFSM (the node has address NodeMac)
\* ------------------------------------------------------------------------
NodeMac == 1

FsmInit ==
    [state |-> "INIT", initialized |-> FALSE, advStartMs |-> 0,
     lastAdvMs |-> 0, nextAdvMs |-> 0, sequenceNum |-> 0, currentNonce |-> 0,
     lastNonceRotationMs |-> 0, pendingCoordMac |-> ZeroMac,
     pendingOfferToken |-> 0, pendingTowerId |-> 0, acceptSentMs |-> 0,
     assignedTowerId |-> 0]

\* TowerConfig keys; "" is a key that is not set
NvsInit == [tower_id |-> "", coord_id |-> "", coord_mac |-> ""]

\* snprintf("%d") of a tower id and String::toInt

TowerIdStr(i) ==
    IF i = 0 THEN "0" ELSE <<"1", "2", "3", "4", "5", "6", "7", "8", "9">>[i]

toInt(str) ==
    IF \E i \in 0..9 : TowerIdStr(i) = str
    THEN CHOOSE i \in 0..9 : TowerIdStr(i) = str
    ELSE 0

\* formatMacString / parseMacString of a coordinator address
MacStr(m) == IF m = coordinatorMac THEN "00:00:00:00:00:09" ELSE "00:00:00:00:00:08"

parseMacString(str) == IF str = "00:00:00:00:00:09" THEN coordinatorMac ELSE OtherCoordMac

\* The node as a value: f the FSM fields, nvs the store, out the callbacks
\* fired and the frames handed to the transport.
NCtx == [f |-> fsm, nvs |-> nvs, out |-> <<>>]

isPairing(f) == f.state \in {"ADVERTISING", "OFFER_RECEIVED", "WAITING_CONFIRM"}

NodeTransitionTo(x, newState) ==
    IF x.f.state = newState THEN x
    ELSE Emit([x EXCEPT !.f.state = newState],
              [ev |-> "state-changed", old |-> x.f.state, new |-> newState])

completePairing(x, result) ==
    LET towerId == IF result = "SUCCESS" THEN x.f.assignedTowerId ELSE 0
        x1 == [x EXCEPT !.f.pendingOfferToken = 0, !.f.pendingTowerId = 0,
                        !.f.pendingCoordMac = ZeroMac]
        x2 == NodeTransitionTo(x1, IF result = "SUCCESS" THEN "BOUND" ELSE "UNPAIRED")
    IN  Emit(x2, [ev |-> "pairing-complete", result |-> result, tower_id |-> towerId])

isPaired(nv) == nv.tower_id # "" /\ nv.coord_id # "" /\ nv.coord_mac # ""

\* loadExistingCredentials: [x |-> the node, ret |-> found]
loadExistingCredentials(x) ==
    IF ~isPaired(x.nvs) THEN [x |-> x, ret |-> FALSE]
    ELSE IF x.nvs.tower_id = "" THEN [x |-> x, ret |-> FALSE]
    ELSE [x |-> [x EXCEPT !.f.assignedTowerId = toInt(x.nvs.tower_id),
                          !.f.pendingCoordMac = parseMacString(x.nvs.coord_mac)],
          ret |-> TRUE]

\* the result of the second write alone
saveCredentials_lastWrite(x, confirm, okId, okMac) ==
    [x |-> [x EXCEPT !.nvs.tower_id = IF okId THEN TowerIdStr(confirm.tower_id) ELSE @,
                     !.nvs.coord_mac = IF okMac THEN MacStr(confirm.coord_mac) ELSE @],
     ret |-> okMac]

\* saveCredentials with the outcome of the two writes; the frames of the
\* model carry config_flags = 0, so no key and no channel is written
saveCredentials(x, confirm, okId, okMac) ==
    [x |-> [x EXCEPT !.nvs.tower_id = IF okId THEN TowerIdStr(confirm.tower_id) ELSE @,
                     !.nvs.coord_mac = IF okMac THEN MacStr(confirm.coord_mac) ELSE @],
     ret |-> okId /\ okMac]

NodeBeginCall(x, seq, nonce) ==
    IF x.f.initialized THEN x
    ELSE
    LET x1 == [x EXCEPT !.f.sequenceNum = seq, !.f.currentNonce = nonce]
        r == loadExistingCredentials(x1)
        x2 == NodeTransitionTo(r.x, IF r.ret THEN "BOUND" ELSE "UNPAIRED")
    IN  [x2 EXCEPT !.f.initialized = TRUE]

rotateNonceIfNeeded(x, t, nonce) ==
    IF U32Sub(t, x.f.lastNonceRotationMs) >= NONCE_ROTATION_MS
    THEN [x EXCEPT !.f.currentNonce = nonce, !.f.lastNonceRotationMs = t]
    ELSE x

sendAdvertisementMessage(x, ok) ==
    Send([x EXCEPT !.f.sequenceNum = (@ + 1) % 65536], BroadcastMac,
         AdvMsg(NodeMac, x.f.currentNonce, x.f.sequenceNum), ok)

\* the window is not enforced: the node goes on advertising
handleAdvertisingTimeout_retry(x) == x

handleAdvertisingTimeout(x) == completePairing(x, "TIMEOUT")

\* the Abort left out
handleConfirmTimeout_silent(x, ok) == completePairing(x, "TIMEOUT")

handleConfirmTimeout(x, ok) ==
    completePairing(
        Send(x, x.f.pendingCoordMac,
             AbortMsg(NodeMac, "TIMEOUT", x.f.pendingOfferToken), ok),
        "TIMEOUT")

\* tick: nonce and jitter are the draws of esp_random, ok the outcome of a send
NodeTickCall(x, t, nonce, jitter, ok) ==
    IF ~x.f.initialized THEN x
    ELSE IF x.f.state = "ADVERTISING" THEN
        LET x1 == rotateNonceIfNeeded(x, t, nonce) IN
        IF U32Sub(t, x1.f.advStartMs) >= ADV_TIMEOUT_MS
        THEN handleAdvertisingTimeout(x1)
        ELSE IF t >= x1.f.nextAdvMs
        THEN [sendAdvertisementMessage(x1, ok)
                EXCEPT !.f.lastAdvMs = t,
                       !.f.nextAdvMs = (t + ADV_INTERVAL_MS + jitter) % ClockMod]
        ELSE x1
    ELSE IF x.f.state = "WAITING_CONFIRM" THEN
        IF U32Sub(t, x.f.acceptSentMs) >= CONFIRM_TIMEOUT_MS
        THEN handleConfirmTimeout(x, ok) ELSE x
    ELSE IF x.f.state = "OFFER_RECEIVED" THEN
        IF U32Sub(t, x.f.lastAdvMs) > STUCK_OFFER_MS
        THEN NodeTransitionTo(x, "ADVERTISING") ELSE x
    ELSE x

startAdvertisingCall(x, t, seq, nonce) ==
    IF x.f.state # "UNPAIRED" THEN [x |-> x, ret |-> FALSE]
    ELSE [x |-> NodeTransitionTo(
                    [x EXCEPT !.f.advStartMs = t, !.f.lastAdvMs = 0,
                              !.f.nextAdvMs = t, !.f.sequenceNum = seq,
                              !.f.currentNonce = nonce,
                              !.f.lastNonceRotationMs = t],
                    "ADVERTISING"),
          ret |-> TRUE]

\* the Abort left out
cancelPairingCall_noAbort(x, ok) ==
    IF ~isPairing(x.f) THEN [x |-> x, ret |-> FALSE]
    ELSE [x |-> completePairing(x, "USER_CANCELLED"), ret |-> TRUE]

cancelPairingCall(x, ok) ==
    IF ~isPairing(x.f) THEN [x |-> x, ret |-> FALSE]
    ELSE
    LET x1 == IF x.f.state = "WAITING_CONFIRM"
              THEN Send(x, x.f.pendingCoordMac,
                        AbortMsg(NodeMac, "USER_REJECTED",
                                 x.f.pendingOfferToken), ok)
              ELSE x
    IN  [x |-> completePairing(x1, "USER_CANCELLED"), ret |-> TRUE]

\* the state is not looked at
enterOperationalCall_anyState(x) == NodeTransitionTo(x, "OPERATIONAL")

enterOperationalCall(x) ==
    IF x.f.state # "BOUND" THEN x ELSE NodeTransitionTo(x, "OPERATIONAL")

resetCall(x) ==
    NodeTransitionTo([x EXCEPT !.nvs = NvsInit, !.f.assignedTowerId = 0,
                               !.f.pendingOfferToken = 0, !.f.pendingTowerId = 0,
                               !.f.pendingCoordMac = ZeroMac],
                     "UNPAIRED")

\* the protocol version of the Offer is not looked at
PairingOfferReceived_anyVersion(x, offer, t, ok) ==
    IF x.f.state # "ADVERTISING" THEN [x |-> x, ret |-> FALSE]
    ELSE IF offer.nonce_echo # x.f.currentNonce
         THEN [x |-> completePairing(x, "NONCE_MISMATCH"), ret |-> FALSE]
    ELSE
    LET x1 == NodeTransitionTo(
                [x EXCEPT !.f.pendingCoordMac = offer.coord_mac,
                          !.f.pendingOfferToken = offer.offer_token,
                          !.f.pendingTowerId = offer.offered_tower_id],
                "OFFER_RECEIVED")
        x2 == Send(x1, x1.f.pendingCoordMac,
                   AcceptMsg(NodeMac, offer.offer_token, offer.offered_tower_id),
                   ok)
    IN  IF ~ok THEN [x |-> NodeTransitionTo(x2, "ADVERTISING"), ret |-> FALSE]
        ELSE [x |-> NodeTransitionTo([x2 EXCEPT !.f.acceptSentMs = t],
                                     "WAITING_CONFIRM"),
              ret |-> TRUE]

\* a failed send of the Accept leaves the node where it is
PairingOfferReceived_stuck(x, offer, t, ok) ==
    IF x.f.state # "ADVERTISING" THEN [x |-> x, ret |-> FALSE]
    ELSE IF offer.protocol_version # PROTOCOL_VERSION THEN [x |-> x, ret |-> FALSE]
    ELSE IF offer.nonce_echo # x.f.currentNonce
         THEN [x |-> completePairing(x, "NONCE_MISMATCH"), ret |-> FALSE]
    ELSE
    LET x1 == NodeTransitionTo(
                [x EXCEPT !.f.pendingCoordMac = offer.coord_mac,
                          !.f.pendingOfferToken = offer.offer_token,
                          !.f.pendingTowerId = offer.offered_tower_id],
                "OFFER_RECEIVED")
        x2 == Send(x1, x1.f.pendingCoordMac,
                   AcceptMsg(NodeMac, offer.offer_token, offer.offered_tower_id),
                   ok)
    IN  IF ~ok THEN [x |-> x2, ret |-> FALSE]
        ELSE [x |-> NodeTransitionTo([x2 EXCEPT !.f.acceptSentMs = t],
                                     "WAITING_CONFIRM"),
              ret |-> TRUE]

PairingOfferReceived(x, offer, t, ok) ==
    IF x.f.state # "ADVERTISING" THEN [x |-> x, ret |-> FALSE]
    ELSE IF offer.protocol_version # PROTOCOL_VERSION THEN [x |-> x, ret |-> FALSE]
    ELSE IF offer.nonce_echo # x.f.currentNonce
         THEN [x |-> completePairing(x, "NONCE_MISMATCH"), ret |-> FALSE]
    ELSE
    LET x1 == NodeTransitionTo(
                [x EXCEPT !.f.pendingCoordMac = offer.coord_mac,
                          !.f.pendingOfferToken = offer.offer_token,
                          !.f.pendingTowerId = offer.offered_tower_id],
                "OFFER_RECEIVED")
        x2 == Send(x1, x1.f.pendingCoordMac,
                   AcceptMsg(NodeMac, offer.offer_token, offer.offered_tower_id),
                   ok)
    IN  IF ~ok THEN [x |-> NodeTransitionTo(x2, "ADVERTISING"), ret |-> FALSE]
        ELSE [x |-> NodeTransitionTo([x2 EXCEPT !.f.acceptSentMs = t],
                                     "WAITING_CONFIRM"),
              ret |-> TRUE]

\* the short id of the Confirm is not looked at
PairingConfirmReceived_anyId(x, confirm, okId, okMac) ==
    IF x.f.state # "WAITING_CONFIRM" THEN [x |-> x, ret |-> FALSE]
    ELSE IF confirm.coord_mac # x.f.pendingCoordMac THEN [x |-> x, ret |-> FALSE]
    ELSE
    LET r == saveCredentials(x, confirm, okId, okMac) IN
    IF ~r.ret THEN [x |-> completePairing(r.x, "NVS_ERROR"), ret |-> FALSE]
    ELSE [x |-> completePairing([r.x EXCEPT !.f.assignedTowerId = confirm.tower_id],
                                "SUCCESS"),
          ret |-> TRUE]

PairingConfirmReceived(x, confirm, okId, okMac) ==
    IF x.f.state # "WAITING_CONFIRM" THEN [x |-> x, ret |-> FALSE]
    ELSE IF confirm.coord_mac # x.f.pendingCoordMac THEN [x |-> x, ret |-> FALSE]
    ELSE IF confirm.tower_id # x.f.pendingTowerId
         THEN [x |-> completePairing(x, "TOKEN_MISMATCH"), ret |-> FALSE]
    ELSE
    LET r == saveCredentials(x, confirm, okId, okMac) IN
    IF ~r.ret THEN [x |-> completePairing(r.x, "NVS_ERROR"), ret |-> FALSE]
    ELSE [x |-> completePairing([r.x EXCEPT !.f.assignedTowerId = confirm.tower_id],
                                "SUCCESS"),
          ret |-> TRUE]

PairingRejectReceived(x, reject) ==
    IF ~isPairing(x.f) THEN [x |-> x, ret |-> FALSE]
    ELSE IF x.f.state = "WAITING_CONFIRM"
            /\ reject.offer_token # x.f.pendingOfferToken
            /\ reject.offer_token # 0
         THEN [x |-> x, ret |-> FALSE]
    ELSE [x |-> completePairing(x, "REJECTED"), ret |-> TRUE]

\* --- the node's operations as actions ---
NodeCommitRx(x, op, arg, ret, rx) ==
    /\ fsm' = x.f
    /\ nvs' = x.nvs
    /\ last' = Record(op, arg, ret, x.out)
    /\ net' = IF linked THEN (net \ rx) \cup OnAir(x.out) ELSE net
    /\ UNCHANGED <<now, coordVars, linked, hist, wire>>

NodeCommit(x, op, arg, ret) == NodeCommitRx(x, op, arg, ret, {})

NodeBegin(seq, nonce) ==
    NodeCommit(NodeBeginCall(NCtx, seq, nonce), "node.begin", ZeroMac, TRUE)

\* a reboot: a fresh NodePairingFSM is constructed over the same store and
\* the host calls begin
NodeRestart(seq, nonce) ==
    NodeCommit(NodeBeginCall([NCtx EXCEPT !.f = FsmInit], seq, nonce),
               "node.restart", ZeroMac, TRUE)

NodeTick(nonce, jitter, ok) ==
    NodeCommit(NodeTickCall(NCtx, now, nonce, jitter, ok), "node.tick", ZeroMac, TRUE)

startAdvertising(seq, nonce) ==
    LET r == startAdvertisingCall(NCtx, now, seq, nonce) IN
    NodeCommit(r.x, "startAdvertising", ZeroMac, r.ret)

cancelPairing(ok) ==
    LET r == cancelPairingCall(NCtx, ok) IN
    NodeCommit(r.x, "cancelPairing", ZeroMac, r.ret)

enterOperational ==
    NodeCommit(enterOperationalCall(NCtx), "enterOperational", ZeroMac, TRUE)

reset == NodeCommit(resetCall(NCtx), "reset", ZeroMac, TRUE)

onPairingOfferReceived(offer, ok) ==
    LET r == PairingOfferReceived(NCtx, offer, now, ok) IN
    NodeCommitRx(r.x, "onPairingOfferReceived", offer.coord_mac, r.ret,
                 {Frame(NodeMac, offer)})

onPairingConfirmReceived(confirm, okId, okMac) ==
    LET r == PairingConfirmReceived(NCtx, confirm, okId, okMac) IN
    NodeCommitRx(r.x, "onPairingConfirmReceived", confirm.coord_mac, r.ret,
                 {Frame(NodeMac, confirm)})

onPairingRejectReceived(reject) ==
    LET r == PairingRejectReceived(NCtx, reject) IN
    NodeCommitRx(r.x, "onPairingRejectReceived", reject.sender_mac, r.ret,
                 {Frame(NodeMac, reject)})

\* ------------------------------------------------------------------------
\* EspNowMessage: the binary codec of the six pairing messages
\* ------------------------------------------------------------------------
\* A message object is a record of its struct's fields; addresses are six
\* bytes, integers keep their width, ts is not on the wire.  NullMsg is
\* nullptr.
Kinds == {"ADVERTISEMENT", "OFFER", "ACCEPT", "CONFIRM", "REJECT", "ABORT"}

NullMsg == [type |-> "NONE"]

\* tx: the message last encoded; intact: the buffer holds its complete encoding
\* json: the text last given to the JSON factory; kind: the MessageType
\* getMessageType last returned
\* the type marker, first byte of the encoding (0x20..0x25)
Marker(kind) ==
    CASE kind = "ADVERTISEMENT" -> 32
      [] kind = "OFFER" -> 33
      [] kind = "ACCEPT" -> 34
      [] kind = "CONFIRM" -> 35
      [] kind = "REJECT" -> 36
      [] kind = "ABORT" -> 37

BINARY_SIZE(kind) ==
    CASE kind = "ADVERTISEMENT" -> 22
      [] kind = "OFFER" -> 23
      [] kind = "ACCEPT" -> 13
      [] kind = "CONFIRM" -> 26
      [] kind = "REJECT" -> 12
      [] kind = "ABORT" -> 12

ZeroBytes(n) == [i \in 1..n |-> 0]

\* memcpy of an n-byte integer to the buffer and back (little-endian)
Pow256(i) == IF i = 0 THEN 1 ELSE IF i = 1 THEN 256
             ELSE IF i = 2 THEN 65536 ELSE 16777216

LE_bigEndian(v, n) == [i \in 1..n |-> (v \div Pow256(n - i)) % 256]

LE(v, n) == [i \in 1..n |-> (v \div Pow256(i - 1)) % 256]

RECURSIVE FromLE(_)
FromLE(b) == IF b = <<>> THEN 0 ELSE Head(b) + 256 * FromLE(Tail(b))

\* static_cast between int8_t and uint8_t


\* the constructors
NewMessage(kind, t) ==
    CASE kind = "ADVERTISEMENT" ->
            [type |-> kind, ts |-> t, protocol_version |-> PROTOCOL_VERSION,
             node_mac |-> ZeroBytes(6), device_type |-> 1,
             firmware_version |-> 0, capabilities |-> 0, nonce |-> 0,
             sequence_num |-> 0, rssi_request |-> 0]
      [] kind = "OFFER" ->
            [type |-> kind, ts |-> t, protocol_version |-> PROTOCOL_VERSION,
             coord_mac |-> ZeroBytes(6), coord_id |-> 0, farm_id |-> 0,
             offered_tower_id |-> 0, nonce_echo |-> 0, offer_token |-> 0,
             channel |-> 1]
      [] kind = "ACCEPT" ->
            [type |-> kind, ts |-> t, node_mac |-> ZeroBytes(6),
             offer_token |-> 0, accepted_tower_id |-> 0]
      [] kind = "CONFIRM" ->
            [type |-> kind, ts |-> t, coord_mac |-> ZeroBytes(6),
             tower_id |-> 0, encryption_key |-> ZeroBytes(16),
             config_flags |-> 0]
      [] kind \in {"REJECT", "ABORT"} ->
            [type |-> kind, ts |-> t, sender_mac |-> ZeroBytes(6),
             reason_code |-> IF kind = "ABORT" THEN 8 ELSE 0,
             offer_token |-> 0]

\* the bytes toBinary writes
Encoding(m) ==
    CASE m.type = "ADVERTISEMENT" ->
            <<Marker(m.type), m.protocol_version>> \o m.node_mac
            \o <<m.device_type>> \o LE(m.firmware_version, 4)
            \o LE(m.capabilities, 2) \o LE(m.nonce, 4)
            \o LE(m.sequence_num, 2) \o <<(m.rssi_request + 256) % 256>>
      [] m.type = "OFFER" ->
            <<Marker(m.type), m.protocol_version>> \o m.coord_mac
            \o LE(m.coord_id, 2) \o LE(m.farm_id, 2)
            \o LE(m.offered_tower_id, 2) \o LE(m.nonce_echo, 4)
            \o LE(m.offer_token, 4) \o <<m.channel>>
      [] m.type = "ACCEPT" ->
            <<Marker(m.type)>> \o m.node_mac \o LE(m.offer_token, 4)
            \o LE(m.accepted_tower_id, 2)
      [] m.type = "CONFIRM" ->
            <<Marker(m.type)>> \o m.coord_mac \o LE(m.tower_id, 2)
            \o m.encryption_key \o <<m.config_flags>>
      [] m.type \in {"REJECT", "ABORT"} ->
            <<Marker(m.type)>> \o m.sender_mac \o <<m.reason_code>>
            \o LE(m.offer_token, 4)

\* toBinary into a buffer of maxLen bytes: the bytes written and their count
toBinary(m, maxLen) ==
    IF maxLen < BINARY_SIZE(m.type) THEN [buffer |-> <<>>, ret |-> 0]
    ELSE [buffer |-> Encoding(m), ret |-> Len(Encoding(m))]

\* the fields fromBinary reads out of b
Decoding(m, b, t) ==
    CASE m.type = "ADVERTISEMENT" ->
            [m EXCEPT !.protocol_version = b[2],
                      !.node_mac = SubSeq(b, 3, 8),
                      !.device_type = b[9],
                      !.firmware_version = FromLE(SubSeq(b, 10, 13)),
                      !.capabilities = FromLE(SubSeq(b, 14, 15)),
                      !.nonce = FromLE(SubSeq(b, 16, 19)),
                      !.sequence_num = FromLE(SubSeq(b, 20, 21)),
                      !.rssi_request = IF b[22] >= 128 THEN b[22] - 256 ELSE b[22],
                      !.ts = t]
      [] m.type = "OFFER" ->
            [m EXCEPT !.protocol_version = b[2],
                      !.coord_mac = SubSeq(b, 3, 8),
                      !.coord_id = FromLE(SubSeq(b, 9, 10)),
                      !.farm_id = FromLE(SubSeq(b, 11, 12)),
                      !.offered_tower_id = FromLE(SubSeq(b, 13, 14)),
                      !.nonce_echo = FromLE(SubSeq(b, 15, 18)),
                      !.offer_token = FromLE(SubSeq(b, 19, 22)),
                      !.channel = b[23],
                      !.ts = t]
      [] m.type = "ACCEPT" ->
            [m EXCEPT !.node_mac = SubSeq(b, 2, 7),
                      !.offer_token = FromLE(SubSeq(b, 8, 11)),
                      !.accepted_tower_id = FromLE(SubSeq(b, 12, 13)),
                      !.ts = t]
      [] m.type = "CONFIRM" ->
            [m EXCEPT !.coord_mac = SubSeq(b, 2, 7),
                      !.tower_id = FromLE(SubSeq(b, 8, 9)),
                      !.encryption_key = SubSeq(b, 10, 25),
                      !.config_flags = b[26],
                      !.ts = t]
      [] m.type \in {"REJECT", "ABORT"} ->
            [m EXCEPT !.sender_mac = SubSeq(b, 2, 7),
                      !.reason_code = b[8],
                      !.offer_token = FromLE(SubSeq(b, 9, 12)),
                      !.ts = t]

\* the marker is not looked at
fromBinary_anyMarker(m, b, t) ==
    IF Len(b) < BINARY_SIZE(m.type) THEN [m |-> m, ret |-> FALSE]
    ELSE [m |-> Decoding(m, b, t), ret |-> TRUE]

\* fromBinary(buffer, len) on the message object m
fromBinary(m, b, t) ==
    IF Len(b) < BINARY_SIZE(m.type) \/ b[1] # Marker(m.type)
    THEN [m |-> m, ret |-> FALSE]
    ELSE [m |-> Decoding(m, b, t), ret |-> TRUE]

\* MessageFactory::getMessageTypeFromBinary; "ERROR" for an unknown marker
getMessageTypeFromBinary(b) ==
    IF Len(b) < 1 THEN "ERROR"
    ELSE IF \E k \in Kinds : Marker(k) = b[1]
         THEN CHOOSE k \in Kinds : Marker(k) = b[1]
         ELSE "ERROR"

\* MessageFactory::createFromBinary: the new message, or NullMsg
createFromBinary(b, t) ==
    IF Len(b) < 1 THEN NullMsg
    ELSE LET k == getMessageTypeFromBinary(b) IN
         IF k = "ERROR" THEN NullMsg
         ELSE LET r == fromBinary(NewMessage(k, t), b, t) IN
              IF r.ret THEN r.m ELSE NullMsg

\* --- MessageFactory over JSON text ---
\* A text is described by what ArduinoJson makes of it: valid, whether
\* deserializeJson accepts it at all; fits, whether the whole document fits
\* the message class's DynamicJsonDocument; msg, what doc["msg"].as<String>()
\* yields ("null" when the field is absent).
getMessageType(json) ==
    IF ~json.valid THEN "ERROR"
    ELSE IF json.msg = "join_request" THEN "JOIN_REQUEST"
    ELSE IF json.msg = "join_accept" THEN "JOIN_ACCEPT"
    ELSE IF json.msg = "set_light" THEN "SET_LIGHT"
    ELSE IF json.msg = "node_status" THEN "NODE_STATUS"
    ELSE IF json.msg = "ack" THEN "ACK"
    ELSE IF json.msg = "tower_join_request" THEN "TOWER_JOIN_REQUEST"
    ELSE IF json.msg = "tower_join_accept" THEN "TOWER_JOIN_ACCEPT"
    ELSE IF json.msg = "tower_telemetry" THEN "TOWER_TELEMETRY"
    ELSE IF json.msg = "tower_command" THEN "TOWER_COMMAND"
    ELSE IF json.msg = "reservoir_telemetry" THEN "RESERVOIR_TELEMETRY"
    ELSE IF json.msg = "pairing_advertisement" THEN "PAIRING_ADVERTISEMENT"
    ELSE IF json.msg = "pairing_offer" THEN "PAIRING_OFFER"
    ELSE IF json.msg = "pairing_accept" THEN "PAIRING_ACCEPT"
    ELSE IF json.msg = "pairing_confirm" THEN "PAIRING_CONFIRM"
    ELSE IF json.msg = "pairing_reject" THEN "PAIRING_REJECT"
    ELSE IF json.msg = "pairing_abort" THEN "PAIRING_ABORT"
    ELSE IF json.msg = "ota_begin" THEN "OTA_BEGIN"
    ELSE IF json.msg = "ota_chunk" THEN "OTA_CHUNK"
    ELSE IF json.msg = "ota_chunk_ack" THEN "OTA_CHUNK_ACK"
    ELSE IF json.msg = "ota_abort" THEN "OTA_ABORT"
    ELSE IF json.msg = "ota_complete" THEN "OTA_COMPLETE"
    ELSE "ERROR"

\* <Class>::fromJson: fails exactly when deserializeJson reports an error
fromJson(json) == json.valid /\ json.fits

\* the message handed back whatever fromJson says
createMessage_noParseCheck(json) == [type |-> getMessageType(json)]

\* MessageFactory::createMessage: the new message (its type), or NullMsg
createMessage(json) ==
    LET m == [type |-> getMessageType(json)] IN
    IF ~fromJson(json) THEN NullMsg ELSE m

\* --- the codec's operations as actions ---
CodecCommit(w, op, arg, ret) ==
    /\ wire' = w
    /\ last' = [op |-> op, arg |-> arg, ret |-> ret, out |-> <<>>]
    /\ UNCHANGED <<now, coordVars, nodeVars, net, linked, hist>>

SampleMac == <<222, 173, 190, 239, 0, 1>>
SampleKey == [i \in 1..16 |-> 16 * i - 1]

\* a message of the kind with its fields set from v32 and v16
Sample(kind, v32, v16, t) ==
    CASE kind = "ADVERTISEMENT" ->
            [NewMessage(kind, t) EXCEPT
                !.node_mac = SampleMac, !.device_type = 2,
                !.firmware_version = v32, !.capabilities = v16,
                !.nonce = v32, !.sequence_num = v16, !.rssi_request = -40]
      [] kind = "OFFER" ->
            [NewMessage(kind, t) EXCEPT
                !.coord_mac = SampleMac, !.coord_id = v16, !.farm_id = 1,
                !.offered_tower_id = v16, !.nonce_echo = v32,
                !.offer_token = v32, !.channel = 11]
      [] kind = "ACCEPT" ->
            [NewMessage(kind, t) EXCEPT
                !.node_mac = SampleMac, !.offer_token = v32,
                !.accepted_tower_id = v16]
      [] kind = "CONFIRM" ->
            [NewMessage(kind, t) EXCEPT
                !.coord_mac = SampleMac, !.tower_id = v16,
                !.encryption_key = SampleKey, !.config_flags = 177]
      [] kind \in {"REJECT", "ABORT"} ->
            [NewMessage(kind, t) EXCEPT
                !.sender_mac = SampleMac, !.reason_code = 4,
                !.offer_token = v32]

\* the sender constructs a message, sets its fields and encodes it; the
\* frame handed to the radio is the bytes toBinary reports as written
Encode(kind, v32, v16, maxLen) ==
    LET m == Sample(kind, v32, v16, now)
        r == toBinary(m, maxLen) IN
    CodecCommit([wire EXCEPT !.tx = m, !.buffer = r.buffer, !.intact = r.ret > 0],
                "toBinary", maxLen, r.ret > 0)

\* the receiver constructs the message object it decodes into
NewRx(kind) ==
    CodecCommit([wire EXCEPT !.rx = NewMessage(kind, now)], "new", kind, TRUE)

\* the radio hands over none of the frame, or all but its last byte
Truncate(all) ==
    /\ wire.intact
    /\ LET n == IF all THEN 0 ELSE Len(wire.buffer) - 1 IN
       CodecCommit([wire EXCEPT !.buffer = SubSeq(@, 1, n), !.intact = FALSE],
                   "truncate", n, TRUE)

\* the first byte is not a pairing marker
Garble ==
    /\ wire.intact
    /\ CodecCommit([wire EXCEPT !.buffer[1] = 16, !.intact = FALSE],
                   "garble", 16, TRUE)

Decode ==
    /\ wire.rx # NullMsg
    /\ LET r == fromBinary(wire.rx, wire.buffer, now) IN
       CodecCommit([wire EXCEPT !.rx = r.m], "fromBinary", wire.rx.type, r.ret)

Create ==
    LET m == createFromBinary(wire.buffer, now) IN
    CodecCommit([wire EXCEPT !.rx = m], "createFromBinary", ZeroMac, m # NullMsg)

\* ------------------------------------------------------------------------
\* Firmware version
\* ------------------------------------------------------------------------
\* major and minor are uint8_t, patch is uint16_t; the fields do not
\* overlap, so | is +
packFirmwareVersion(major, minor, patch) ==
    major * 2^24 + minor * 2^16 + patch

unpackFirmwareVersion(packed) ==
    [major |-> (packed \div 2^24) % 256,
     minor |-> (packed \div 2^16) % 256,
     patch |-> packed % 65536]

\* DiscoveredNode::firmwareString: snprintf("%d.%d.%d")
firmwareString(node) ==
    ToString((node.firmware_version \div 65536) % 256) \o "."
        \o ToString((node.firmware_version \div 256) % 256) \o "."
        \o ToString(node.firmware_version % 256)

\* l: whether the node and the coordinator are on the same radio channel
Boot(l) ==
    /\ now = 0
    /\ nodes = <<>>
    /\ state = "OPERATIONAL"
    /\ nextTowerId = 1
    /\ permitJoinDl = DeadlineInit
    /\ currentBinding =
        [node_mac |-> ZeroMac, offer_token |-> 0, assigned_tower_id |-> 0,
         started_ms |-> 0, accept_received |-> FALSE]
    /\ bindingActive = FALSE
    /\ fsm = FsmInit
    /\ nvs = NvsInit
    /\ net = {}
    /\ linked = l
    /\ last = [op |-> IF l THEN "radio" ELSE "begin", arg |-> ZeroMac,
               ret |-> TRUE, out |-> <<>>]
    /\ hist = HistInit
    /\ wire = [tx |-> NullMsg, buffer |-> <<>>, rx |-> NullMsg, intact |-> FALSE,
              json |-> [valid |-> FALSE, fits |-> FALSE, msg |-> "null"],
              kind |-> "ERROR"]

\* each side on its own: its inbound frames are arbitrary
Init == Boot(FALSE)

\* the node and the coordinator exchange their frames over the radio

\* ------------------------------------------------------------------------
\* Specifications
\* ------------------------------------------------------------------------
\* The public operations of DiscoveryManager that the state machine or the
\* host may call on their own
updateNodeStateOp(mac, newState) ==
    /\ Commit(updateNodeState(Ctx, mac, newState), "updateNodeState", mac,
              Present(nodes, mac), hist)
    /\ UNCHANGED now

removeNodeOp(mac) ==
    /\ Commit(removeNode(Ctx, mac), "removeNode", mac, Present(nodes, mac), hist)
    /\ UNCHANGED now

clearAllOp ==
    /\ Commit(clearAll(Ctx), "clearAll", ZeroMac, TRUE, hist)
    /\ UNCHANGED now

\* DiscoveryManager on its own, driven through its public operations.
\* Address 1 advertises every (nonce, sequence) pair, the others one pair.
AdvInputs(m) == IF m = 1 THEN {<<0, 0>>, <<0, 1>>, <<1, 1>>} ELSE {<<0, 0>>}

NextDisc ==
    \/ \E m \in Macs : \E p \in AdvInputs(m) :
            onAdvertisementReceived(AdvMsg(m, p[1], p[2]), -40, TRUE)
    \/ DiscoveryTick
    \/ \E m \in Macs : updateNodeStateOp(m, "BOUND")
    \/ \E m \in Macs : removeNodeOp(m)
    \/ clearAllOp
    \/ AdvanceTime(DISCOVERY_TTL_MS, MaxSteps * DISCOVERY_TTL_MS)

SpecDisc == Init /\ [][NextDisc]_vars

\* The coordinator: PairingStateMachine over DiscoveryManager.  Inbound
\* frames are arbitrary, so lost, late, repeated and forged frames are all
\* covered.  One address advertises and is approved or rejected by the
\* operator; frames come from two.
FrameMacs == {1, 2}
Next ==
    \/ \E n \in Nonces : onAdvertisementReceived(AdvMsg(1, n, 0), -40, FALSE)
    \/ DiscoveryTick
    \/ \E ok \in BOOLEAN : tick(ok)
    \/ \E d \in {2 * BINDING_TIMEOUT_MS, MAX_PERMIT_JOIN_MS + 1} : enablePermitJoin(d)
    \/ disablePermitJoin
    \/ \E tk \in Tokens, ok \in BOOLEAN : approveNode(1, tk, ok)
    \/ \E ok \in BOOLEAN : rejectNode(1, ok)
    \/ \E m \in FrameMacs, tk \in Tokens, id \in TowerIds, ok \in BOOLEAN :
            onPairingAcceptReceived(AcceptMsg(m, tk, id), ok)
    \/ \E m \in FrameMacs, tk \in Tokens :
            onPairingAbortReceived(AbortMsg(m, "TIMEOUT", tk))
    \/ AdvanceTime(BINDING_TIMEOUT_MS, MaxSteps * BINDING_TIMEOUT_MS)

Spec == Init /\ [][Next]_vars

\* The node: NodePairingFSM on its own.  Inbound frames are arbitrary.  The
\* host calls begin before it uses the object otherwise (Usage,
\* NodePairingFSM.h).
CoordAddrs == {coordinatorMac, OtherCoordMac}
Versions == {PROTOCOL_VERSION, 1}
Jitters == {-ADV_JITTER_MS, ADV_JITTER_MS}
OfferIds == {1}
ConfirmIds == {1, 2}

AnyOffer(v, cm, id, n, tk) ==
    [type |-> "OFFER", protocol_version |-> v, coord_mac |-> cm,
     offered_tower_id |-> id, nonce_echo |-> n, offer_token |-> tk,
     channel |-> 0]

AnyConfirm(cm, id) ==
    [type |-> "CONFIRM", coord_mac |-> cm, tower_id |-> id, config_flags |-> 0]

AnyReject(cm, reason, tk) ==
    [type |-> "REJECT", sender_mac |-> cm, reason_code |-> reason,
     offer_token |-> tk]

NextNode ==
    \/ \E n \in Nonces : NodeBegin(0, n)
    \/ \E n \in Nonces, j \in Jitters, ok \in BOOLEAN : NodeTick(n, j, ok)
    \/ \E n \in Nonces : startAdvertising(0, n)
    \/ \E ok \in BOOLEAN : cancelPairing(ok)
    \/ enterOperational
    \/ fsm.initialized /\ reset
    \/ \E v \in Versions, cm \in CoordAddrs, id \in OfferIds, n \in Nonces,
          tk \in Tokens, ok \in BOOLEAN :
            onPairingOfferReceived(AnyOffer(v, cm, id, n, tk), ok)
    \/ \E cm \in CoordAddrs, id \in ConfirmIds, okId \in BOOLEAN, okMac \in BOOLEAN :
            onPairingConfirmReceived(AnyConfirm(cm, id), okId, okMac)
    \/ \E tk \in Tokens : onPairingRejectReceived(AnyReject(coordinatorMac, "TIMEOUT", tk))
    \/ AdvanceTime(CONFIRM_TIMEOUT_MS, MaxSteps * CONFIRM_TIMEOUT_MS)

SpecNode == Init /\ [][NextNode]_vars

\* The node over reboots: NodePairingFSM on its own, with the power cycled
\* at any moment.
NextBoot ==
    \/ NextNode
    \/ \E n \in Nonces : NodeRestart(0, n)

SpecBoot == Init /\ [][NextBoot]_vars

\* The codec on its own: a sender encodes, the radio may shorten or garble
\* the bytes, a receiver decodes into a message object of any kind.
\* The fields take values that fill two and four bytes; the caller's buffer
\* is one byte short, exact, or has room to spare.

NextCodec ==
    \/ \E k \in Kinds, v32 \in {16909060, 2147483647}, v16 \in {258, 65535},
          d \in {-1, 0, 200} :
            Encode(k, v32, v16, BINARY_SIZE(k) + d)
    \/ \E k \in Kinds : NewRx(k)
    \/ \E all \in BOOLEAN : Truncate(all)
    \/ Garble
    \/ Decode
    \/ Create
    \/ AdvanceTime(1, 1)

SpecCodec == Init /\ [][NextCodec]_vars


\* The node around the moment millis() wraps: the device has been up for
\* WrapStart ms before it advertises (the wrap is then one longest
\* advertisement delay away), and time moves in steps of the jitter through
\* ClockMod and as far again.  At most 3 * MaxSteps advertisements are sent.
WrapStart == ClockMod - (ADV_INTERVAL_MS + 2 * ADV_JITTER_MS)

NextWrap ==
    \/ NodeBegin(0, 0)
    \/ startAdvertising(0, 0)
    \/ \E j \in Jitters, ok \in BOOLEAN :
            fsm.sequenceNum < 3 * MaxSteps /\ NodeTick(1, j, ok)
    \/ fsm.state \in {"INIT", "UNPAIRED"} /\ AdvanceTime(WrapStart, WrapStart)
    \/ /\ U32Sub(now, WrapStart) + ADV_JITTER_MS <= 2 * U32Sub(0, WrapStart)
       /\ now' = (now + ADV_JITTER_MS) % ClockMod
       /\ last' = Record("millis", ZeroMac, TRUE, <<>>)
       /\ UNCHANGED <<coordVars, nodeVars, net, linked, hist, wire>>

SpecWrap == Init /\ [][NextWrap]_vars

\* approveNode, in the calls that get as far as generateOfferToken, which
\* draws a value it has not drawn before; hist.issued keeps the values drawn
TokenSpace == 0..MaxSteps

approveNodeFresh(mac, ok) ==
    \E token \in TokenSpace \ hist.issued :
        LET r == approveNodeCall(Ctx, mac, token, now, ok) IN
        /\ nextTowerId < MaxTowerId
        /\ approveAllowed(Ctx)
        /\ findNodeIndex(nodes, mac) > 0
        /\ nodes[findNodeIndex(nodes, mac)].state # "BOUND"
        /\ Commit(r.c, "approveNode", mac, r.ret,
                  [CoordHist(hist, r.c, r.ret) EXCEPT !.issued = @ \cup {token}])
        /\ UNCHANGED now

\* One node and a coordinator whose offer tokens never repeat; C5_Accepts and
\* Aborts arrive with any token, old or new.
NextTokens ==
    \/ onAdvertisementReceived(AdvMsg(NodeMac, 0, 0), -40, FALSE)
    \/ \E ok \in BOOLEAN : tick(ok)
    \/ enablePermitJoin(MAX_PERMIT_JOIN_MS)
    \/ \E ok \in BOOLEAN : approveNodeFresh(NodeMac, ok)
    \/ \E tk \in TokenSpace, id \in TowerIds, ok \in BOOLEAN :
            onPairingAcceptReceived(AcceptMsg(NodeMac, tk, id), ok)
    \/ \E tk \in TokenSpace :
            onPairingAbortReceived(AbortMsg(NodeMac, "USER_REJECTED", tk))
    \/ \E ok \in BOOLEAN : rejectNode(NodeMac, ok)
    \/ AdvanceTime(DISCOVERY_TTL_MS, MaxSteps * DISCOVERY_TTL_MS)

SpecTokens == Init /\ [][NextTokens]_vars

\* The JSON factory on its own, over texts that do not parse, that parse
\* with a known, an unknown or no "msg" value, and that parse but overflow
\* the message's document.
JsonTexts ==
    {[valid |-> FALSE, fits |-> FALSE, msg |-> "null"]}
    \cup {[valid |-> TRUE, fits |-> f, msg |-> m] :
            f \in BOOLEAN,
            m \in {"join_request", "join_accept", "set_light",
                   "node_status", "ack", "tower_join_request",
                   "tower_join_accept", "tower_telemetry", "tower_command",
                   "reservoir_telemetry", "pairing_advertisement", "pairing_offer",
                   "pairing_accept", "pairing_confirm", "pairing_reject",
                   "pairing_abort", "ota_begin", "ota_chunk",
                   "ota_chunk_ack", "ota_abort", "ota_complete",
                   "error", "unknown", "null"}}

GetType(json) ==
    CodecCommit([wire EXCEPT !.json = json, !.kind = getMessageType(json)],
                "getMessageType", ZeroMac, TRUE)

CreateJson(json) ==
    LET m == createMessage(json) IN
    CodecCommit([wire EXCEPT !.json = json, !.kind = getMessageType(json),
                             !.rx = m],
                "createMessage", ZeroMac, m # NullMsg)

NextJson ==
    \/ \E json \in JsonTexts : GetType(json)
    \/ \E json \in JsonTexts : CreateJson(json)

SpecJson == Init /\ [][NextJson]_vars

\* The coordinator with its main loop running: tick is called again and
\* again and millis() moves on in steps of the binding timeout, for one
\* discovery period and MaxSteps binding timeouts.  A window or an attempt
\* is opened only while the clock can still run past its deadline.  Frames
\* of the node, with the token of the Offer or another, arrive at any time
\* or are lost.
NextLive ==
    \/ onAdvertisementReceived(AdvMsg(NodeMac, 0, 0), -40, FALSE)
    \/ \E ok \in BOOLEAN : tick(ok)
    \/ /\ now + DISCOVERY_TTL_MS <= DISCOVERY_TTL_MS + MaxSteps * BINDING_TIMEOUT_MS
       /\ enablePermitJoin(DISCOVERY_TTL_MS)
    \/ /\ now + 2 * BINDING_TIMEOUT_MS
            <= DISCOVERY_TTL_MS + MaxSteps * BINDING_TIMEOUT_MS
       /\ \E ok \in BOOLEAN : approveNode(NodeMac, 1, ok)
    \/ \E tk \in Tokens, ok \in BOOLEAN :
            onPairingAcceptReceived(AcceptMsg(NodeMac, tk, 1), ok)
    \/ \E tk \in Tokens :
            onPairingAbortReceived(AbortMsg(NodeMac, "USER_REJECTED", tk))
    \/ AdvanceTime(BINDING_TIMEOUT_MS,
                   DISCOVERY_TTL_MS + MaxSteps * BINDING_TIMEOUT_MS)

SpecLive ==
    /\ Init
    /\ [][NextLive]_vars
    /\ WF_vars(\E ok \in BOOLEAN : tick(ok))
    /\ WF_vars(AdvanceTime(BINDING_TIMEOUT_MS,
                           DISCOVERY_TTL_MS + MaxSteps * BINDING_TIMEOUT_MS))

\* The node with its main loop running and no coordinator that answers its
\* advertisement: tick is called again and again, millis() moves on to just
\* before and then onto each multiple of the advertising window, and the
\* frames that arrive are Offers of another version or with a stale nonce,
\* Confirms and Rejects.  Advertising is started only while the clock can
\* still run past its window.
NextNodeLive ==
    \/ \E n \in Nonces : NodeBegin(0, n)
    \/ \E n \in Nonces, j \in Jitters, ok \in BOOLEAN : NodeTick(n, j, ok)
    \/ /\ now + ADV_TIMEOUT_MS <= MaxSteps * ADV_TIMEOUT_MS
       /\ \E n \in Nonces : startAdvertising(0, n)
    \/ \E ok \in BOOLEAN : cancelPairing(ok)
    \/ \E v \in Versions, n \in Nonces, tk \in Tokens :
            /\ v # PROTOCOL_VERSION \/ n # fsm.currentNonce
            /\ onPairingOfferReceived(AnyOffer(v, coordinatorMac, 1, n, tk), TRUE)
    \/ \E id \in ConfirmIds :
            onPairingConfirmReceived(AnyConfirm(coordinatorMac, id), TRUE, TRUE)
    \/ \E tk \in Tokens :
            onPairingRejectReceived(AnyReject(coordinatorMac, "TIMEOUT", tk))
    \/ AdvanceTime(IF now % ADV_TIMEOUT_MS = 0 THEN ADV_TIMEOUT_MS - 1 ELSE 1,
                   MaxSteps * ADV_TIMEOUT_MS)

SpecNodeLive ==
    /\ Init
    /\ [][NextNodeLive]_vars
    /\ WF_vars(\E n \in Nonces, j \in Jitters, ok \in BOOLEAN : NodeTick(n, j, ok))
    /\ WF_vars(AdvanceTime(IF now % ADV_TIMEOUT_MS = 0
                           THEN ADV_TIMEOUT_MS - 1 ELSE 1,
                           MaxSteps * ADV_TIMEOUT_MS))

\* The discovery table fed with advertisements of nodes that report their
\* firmware version: each node packs its (major, minor, patch) into the
\* advertisement; the values fill and do not fill their fields.
NextFw ==
    \/ \E n \in Nonces, major \in {0, 1, 127}, minor \in {0, 2, 255},
          patch \in {0, 3, 256, 65535} :
            onAdvertisementReceived(
                [AdvMsg(NodeMac, n, 0) EXCEPT
                    !.firmware_version = packFirmwareVersion(major, minor, patch)],
                -40, TRUE)
    \/ removeNodeOp(NodeMac)
    \/ AdvanceTime(DISCOVERY_TTL_MS, DISCOVERY_TTL_MS)

SpecFw == Init /\ [][NextFw]_vars

\* The coordinator with its discovery table over a clock that passes the
\* TTL of an entry: one node advertises, is approved, and accepts.
NextSweep ==
    \/ onAdvertisementReceived(AdvMsg(NodeMac, 0, 0), -40, FALSE)
    \/ DiscoveryTick
    \/ \E ok \in BOOLEAN : tick(ok)
    \/ enablePermitJoin(MAX_PERMIT_JOIN_MS)
    \/ \E tk \in Tokens, ok \in BOOLEAN : approveNode(NodeMac, tk, ok)
    \/ \E tk \in Tokens, id \in TowerIds, ok \in BOOLEAN :
            onPairingAcceptReceived(AcceptMsg(NodeMac, tk, id), ok)
    \/ AdvanceTime(DISCOVERY_TTL_MS, MaxSteps * DISCOVERY_TTL_MS)

SpecSweep == Init /\ [][NextSweep]_vars

\* The node and the coordinator on one radio channel that loses nothing:
\* every send succeeds, every write to the store succeeds, and a frame is
\* delivered before the clock moves.  The host restores the id counter
\* before it opens the first window, and the node's loop has run tick by the
\* time the clock moves.
RadioToCoordinator ==
    \E f \in net :
        \/ f.to = BroadcastMac /\ onAdvertisementReceived(f.msg, -40, FALSE)
        \/ /\ f.to = coordinatorMac
           /\ f.msg.type = "ACCEPT"
           /\ onPairingAcceptReceived(f.msg, TRUE)

RadioToNode ==
    \E f \in net :
        /\ f.to = NodeMac
        /\ \/ f.msg.type = "OFFER" /\ onPairingOfferReceived(f.msg, TRUE)
           \/ f.msg.type = "CONFIRM" /\ onPairingConfirmReceived(f.msg, TRUE, TRUE)
           \/ f.msg.type = "REJECT" /\ onPairingRejectReceived(f.msg)

\* esp_random draws 32 bits: a fresh nonce is one that is not in use, neither
\* held by the node, nor stored in the table, nor carried by a frame

FreshNonce ==
    CHOOSE n \in {0, 1, 2, 3} :
        n \notin
            {fsm.currentNonce}
            \cup {nodes[i].last_nonce : i \in 1..Len(nodes)}
            \cup {f.msg.nonce : f \in {g \in net : g.msg.type = "ADVERTISEMENT"}}
            \cup {f.msg.nonce_echo : f \in {g \in net : g.msg.type = "OFFER"}}

NodeLoopRan == fsm.state = "ADVERTISING" => fsm.nextAdvMs > now

NextHappy ==
    \/ NodeBegin(0, 0)
    \/ startAdvertising(0, FreshNonce)
    \/ NodeTick(FreshNonce, ADV_JITTER_MS, TRUE)
    \/ enterOperational
    \/ \E k \in TowerIds : permitJoinDl = DeadlineInit /\ setNextTowerId(k)
    \/ enablePermitJoin(MAX_PERMIT_JOIN_MS)
    \/ \E tk \in Tokens : approveNode(NodeMac, tk, TRUE)
    \/ tick(TRUE)
    \/ DiscoveryTick
    \/ RadioToCoordinator
    \/ RadioToNode
    \/ /\ net = {}
       /\ NodeLoopRan
       /\ AdvanceTime(DISCOVERY_TTL_MS, MaxSteps * DISCOVERY_TTL_MS)

SpecHappy == Boot(TRUE) /\ [][NextHappy]_vars

\* ------------------------------------------------------------------------
\* Properties
\* ------------------------------------------------------------------------
C5_Entry(ns, m) == ns[findNodeIndex(ns, m)]

\* The node and the coordinator over an unreliable radio.  A frame on the
\* air is delivered at any time and in any order, or lost, or repeated: a
\* repeated frame is a copy that stays on the air after the original was
\* delivered (one copy of a handshake frame at a time).  No frame is on the
\* air that was not sent.  The clock moves past the confirm and the binding
\* timeout in one step.  Every nonce drawn is new; the node starts to
\* advertise MaxSteps times and advertises when its last advertisement has
\* left the air.
NextLossy ==
    \/ NodeBegin(0, 0)
    \/ fsm.currentNonce < MaxSteps /\ startAdvertising(0, fsm.currentNonce + 1)
    \/ /\ \A f \in net : f.msg.type # "ADVERTISEMENT"
       /\ NodeTick(fsm.currentNonce + 1, ADV_JITTER_MS, TRUE)
    \/ enablePermitJoin(MAX_PERMIT_JOIN_MS)
    \/ \E tk \in Tokens : approveNode(NodeMac, tk, TRUE)
    \/ tick(TRUE)
    \/ \E f \in net :
        \/ f.to = BroadcastMac /\ onAdvertisementReceived(f.msg, -40, FALSE)
        \/ /\ f.to = coordinatorMac
           /\ \/ f.msg.type = "ACCEPT"
                    /\ \E ok \in BOOLEAN : onPairingAcceptReceived(f.msg, ok)
              \/ f.msg.type = "ABORT" /\ onPairingAbortReceived(f.msg)
        \/ /\ f.to = NodeMac
           /\ \/ f.msg.type = "OFFER" /\ onPairingOfferReceived(f.msg, TRUE)
              \/ f.msg.type = "CONFIRM"
                    /\ onPairingConfirmReceived(f.msg, TRUE, TRUE)
              \/ f.msg.type = "REJECT" /\ onPairingRejectReceived(f.msg)
    \/ \E f \in net :
        /\ net' = net \ {f}
        /\ UNCHANGED <<now, coordVars, nodeVars, linked, last, hist, wire>>
    \/ \E f \in net :
        /\ f.msg.type # "ADVERTISEMENT"
        /\ \A g \in net : DOMAIN g = DOMAIN f
        /\ net' = net \cup {[to |-> f.to, msg |-> f.msg, copy |-> TRUE]}
        /\ UNCHANGED <<now, coordVars, nodeVars, linked, last, hist, wire>>
    \/ AdvanceTime(BINDING_TIMEOUT_MS + CONFIRM_TIMEOUT_MS,
                   BINDING_TIMEOUT_MS + CONFIRM_TIMEOUT_MS)

SpecLossy == Boot(TRUE) /\ [][NextLossy]_vars

C1_Sends(out) == SelectSeq(out, LAMBDA e : e.ev = "send")

C3_Completions(out) == SelectSeq(out, LAMBDA e : e.ev = "binding-completed")

\* C1 - Binding exclusivity: approveNode called while a binding attempt is
\* active returns false, leaves the attempt (target, token, short id, start
\* time) as it was, leaves the coordinator in BINDING and sends nothing.
C1_BindingExclusivity ==
    [][(bindingActive /\ last'.op = "approveNode")
        => /\ last'.ret = FALSE
           /\ currentBinding' = currentBinding
           /\ bindingActive'
           /\ state = "BINDING" /\ state' = "BINDING"
           /\ C1_Sends(last'.out) = <<>>]_vars

C1_Witness ==
    /\ last.op = "approveNode" /\ last.ret = FALSE
    /\ bindingActive /\ state = "BINDING"
    /\ last.arg = currentBinding.node_mac

\* C3 - Binding timeout: a tick in BINDING more than 10000 ms after the
\* attempt started hands exactly one Reject(TIMEOUT, attempt token) for the
\* target to the transport, completes the attempt as TIMEOUT and goes to
\* DISCOVERY_ACTIVE when the permit-join window is still open, else to
\* OPERATIONAL; a tick before 10000 ms sends none; an attempt never gets a
\* second Reject(TIMEOUT).
C3_TimeoutStep ==
    (last'.op = "tick" /\ state = "BINDING" /\ bindingActive
        /\ now - currentBinding.started_ms > 10000)
    => /\ Len(C1_Sends(last'.out)) = 1
       /\ C1_Sends(last'.out)[1].to = currentBinding.node_mac
       /\ C1_Sends(last'.out)[1].msg =
            [type |-> "REJECT", sender_mac |-> coordinatorMac,
             reason_code |-> "TIMEOUT",
             offer_token |-> currentBinding.offer_token]
       /\ C3_Completions(last'.out) =
            <<[ev |-> "binding-completed", mac |-> currentBinding.node_mac,
               result |-> "TIMEOUT",
               tower_id |-> currentBinding.assigned_tower_id]>>
       /\ ~bindingActive'
       /\ state' = IF permitJoinDl.active
                      /\ now - permitJoinDl.startMs < permitJoinDl.durationMs
                   THEN "DISCOVERY_ACTIVE" ELSE "OPERATIONAL"

C3_NotEarly ==
    (last'.op = "tick" /\ state = "BINDING" /\ bindingActive
        /\ now - currentBinding.started_ms < 10000)
    => (last'.out = <<>> /\ bindingActive' /\ state' = "BINDING")

C9_Rejected ==
    /\ last'.ret = FALSE
    /\ last'.out = <<>>
    /\ UNCHANGED <<nodes, state, nextTowerId, currentBinding, bindingActive,
                   permitJoinDl>>

C9_AcceptValidation ==
    [][last'.op = "onPairingAcceptReceived" =>
       \/ C9_Rejected
       \/ \A tk \in Tokens, id \in TowerIds, ok \in BOOLEAN :
            (\/ state # "BINDING"
             \/ ~bindingActive
             \/ last'.arg # currentBinding.node_mac
             \/ tk # currentBinding.offer_token
             \/ id # currentBinding.assigned_tower_id)
            => ~onPairingAcceptReceived(AcceptMsg(last'.arg, tk, id), ok)]_vars

C9_Witness ==
    /\ last.op = "onPairingAcceptReceived" /\ last.ret = FALSE
    /\ state = "BINDING" /\ bindingActive
    /\ last.arg = currentBinding.node_mac

\* --- DiscoveryManager ---
C6_Live(n, t) == n.state = "BOUND" \/ t - n.last_seen_ms <= 30000

C6_LiveCount(ns, t) == Cardinality({i \in 1..Len(ns) : C6_Live(ns[i], t)})

\* C6 - Capacity enforcement: with MAX_DISCOVERED_NODES non-expired entries
\* for other addresses in the table, an advertisement of an absent address A
\* returns false, fires no event and leaves the table as it was; A stays
\* absent as long as the table holds that many non-expired entries.
C6_CapacityEnforced ==
    [][\A a \in Macs :
        (~Present(nodes, a) /\ C6_LiveCount(nodes, now) >= MAX_DISCOVERED_NODES)
        => /\ ~Present(nodes', a)
           /\ (last'.op = "onAdvertisementReceived" /\ last'.arg = a)
                => (last'.ret = FALSE /\ last'.out = <<>> /\ nodes' = nodes)]_vars

C6_Witness ==
    /\ last.op = "onAdvertisementReceived" /\ last.ret = FALSE
    /\ ~Present(nodes, last.arg)
    /\ Len(nodes) = MAX_DISCOVERED_NODES
    /\ C6_LiveCount(nodes, now) = MAX_DISCOVERED_NODES

\* C7 - Bounded table: the discovery table never holds more than
\* MAX_DISCOVERED_NODES entries, Bound entries included.
C7_BoundedTable == Len(nodes) <= MAX_DISCOVERED_NODES

C2_NodeResults(out) == SelectSeq(out, LAMBDA e : e.ev = "pairing-complete")

\* C2 - Nonce anti-replay: when the node is Advertising and receives an
\* Offer of its protocol version whose nonce_echo is not the nonce it holds,
\* the Offer is rejected with result NonceMismatch, no Accept is sent, no
\* credentials are saved, and the node is still Advertising afterwards.
C2_NonceAntiReplay ==
    [][(last'.op = "onPairingOfferReceived" /\ fsm.state = "ADVERTISING") =>
        \A cm \in CoordAddrs, id \in OfferIds, n \in Nonces, tk \in Tokens,
           ok \in BOOLEAN :
            (/\ n # fsm.currentNonce
             /\ onPairingOfferReceived(AnyOffer(PROTOCOL_VERSION, cm, id, n, tk), ok))
            => /\ last'.ret = FALSE
               /\ Len(C2_NodeResults(last'.out)) = 1
               /\ C2_NodeResults(last'.out)[1].result = "NONCE_MISMATCH"
               /\ C1_Sends(last'.out) = <<>>
               /\ nvs' = nvs
               /\ fsm'.state = "ADVERTISING"]_vars

C10_SuccessLeavesBoundEntry ==
    \A i \in 1..Len(last.out) :
        (last.out[i].ev = "binding-completed" /\ last.out[i].result = "SUCCESS")
        => /\ Present(nodes, last.out[i].mac)
           /\ C5_Entry(nodes, last.out[i].mac).state = "BOUND"

\* --- the handshake over a radio that loses nothing (SpecHappy) ---
C5_Offers == {f \in net : f.msg.type = "OFFER"}
C5_Accepts == {f \in net : f.msg.type = "ACCEPT"}
C5_Confirms == {f \in net : f.msg.type = "CONFIRM"}

\* approve(node) succeeded with next short id k: the Offer is on the air
C5_Approved ==
    (~bindingActive /\ bindingActive') =>
        \E o \in C5_Offers' :
            /\ o.to = currentBinding'.node_mac
            /\ o.msg.offered_tower_id = nextTowerId
            /\ o.msg.offer_token = currentBinding'.offer_token
            /\ o.msg.nonce_echo = C5_Entry(nodes, o.to).last_nonce
            /\ currentBinding'.assigned_tower_id = nextTowerId

\* the Offer reaches the node, which is Advertising with the echoed nonce:
\* the Accept carries the Offer's token and id
C5_Accepted ==
    \A o \in C5_Offers :
        (/\ o \notin net'
         /\ o.to = NodeMac
         /\ fsm.state = "ADVERTISING"
         /\ o.msg.nonce_echo = fsm.currentNonce)
        => /\ fsm'.state = "WAITING_CONFIRM"
           /\ \E a \in C5_Accepts' :
                /\ a.to = o.msg.coord_mac
                /\ a.msg.node_mac = NodeMac
                /\ a.msg.offer_token = o.msg.offer_token
                /\ a.msg.accepted_tower_id = o.msg.offered_tower_id

\* the Accept reaches the coordinator, whose attempt it matches: the Confirm
\* carries k, the entry is Bound and the counter is k + 1
C5_Confirmed ==
    \A a \in C5_Accepts :
        (/\ a \notin net'
         /\ state = "BINDING" /\ bindingActive
         /\ a.msg.node_mac = currentBinding.node_mac
         /\ a.msg.offer_token = currentBinding.offer_token
         /\ a.msg.accepted_tower_id = currentBinding.assigned_tower_id)
        => /\ \E c \in C5_Confirms' :
                /\ c.to = a.msg.node_mac
                /\ c.msg.tower_id = a.msg.accepted_tower_id
           /\ Present(nodes', a.msg.node_mac)
           /\ C5_Entry(nodes', a.msg.node_mac).state = "BOUND"
           /\ nextTowerId' = a.msg.accepted_tower_id + 1

\* the Confirm reaches the node that waits for it: the node is Bound with k
C5_Bound ==
    \A c \in C5_Confirms :
        (/\ c \notin net'
         /\ fsm.state = "WAITING_CONFIRM"
         /\ c.msg.coord_mac = fsm.pendingCoordMac
         /\ c.msg.tower_id = fsm.pendingTowerId)
        => /\ fsm'.state = "BOUND"
           /\ fsm'.assignedTowerId = c.msg.tower_id
           /\ toInt(nvs'.tower_id) = c.msg.tower_id

\* no frame is in flight and the node is not left waiting for a Confirm
C5_NotLeftWaiting ==
    net = {} => fsm.state \notin {"OFFER_RECEIVED", "WAITING_CONFIRM"}

\* the node is Bound with id k: the entry is Bound, the counter is k + 1 and
\* the store holds k
C5_BoundBothSides ==
    fsm.state \in {"BOUND", "OPERATIONAL"} =>
        /\ Present(nodes, NodeMac)
        /\ C5_Entry(nodes, NodeMac).state = "BOUND"
        /\ nextTowerId = fsm.assignedTowerId + 1
        /\ toInt(nvs.tower_id) = fsm.assignedTowerId
        /\ parseMacString(nvs.coord_mac) = coordinatorMac

\* C5 - Successful handshake end to end: with the window open, every send
\* succeeding and delivered, persistence succeeding and the node holding the
\* nonce the coordinator last saw, approve(node) with next short id k puts an
\* Offer with k and that nonce on the air; the Offer delivered, the node's
\* Accept carries the Offer's token and k; the Accept delivered, the
\* coordinator's Confirm carries k, the entry is Bound and the counter is
\* k + 1; the Confirm delivered, the node is Bound with assigned id k; the
\* node is never left waiting, and once it is Bound both sides agree.
C5_Handshake ==
    /\ [][C5_Approved /\ C5_Accepted /\ C5_Confirmed /\ C5_Bound]_vars
    /\ [](C5_NotLeftWaiting /\ C5_BoundBothSides)

C5_Witness ==
    /\ fsm.state = "BOUND"
    /\ fsm.assignedTowerId = 2
    /\ nvs.tower_id = "2"
    /\ Present(nodes, NodeMac)
    /\ C5_Entry(nodes, NodeMac).state = "BOUND"
    /\ nextTowerId = 3
    /\ C5_Confirms = {}

\* --- the coordinator's operations, one by one (Spec) ---
C11_Successes(out) ==
    SelectSeq(out, LAMBDA e : e.ev = "binding-completed" /\ e.result = "SUCCESS")

\* C11 - Short-id allocation: an operation that completes a binding as
\* Success raises the next-short-id counter by exactly one, and the id of
\* that binding is the counter's value before; every other operation and
\* completion result leaves the counter unchanged.  The counter never goes
\* down, so two successful bindings never get the same short id.
C11_ShortIdAllocation ==
    [][/\ Len(C11_Successes(last'.out)) <= 1
       /\ nextTowerId' = nextTowerId + Len(C11_Successes(last'.out))
       /\ \A i \in 1..Len(C11_Successes(last'.out)) :
            C11_Successes(last'.out)[i].tower_id = nextTowerId]_vars

\* the second successful binding: id 2 after id 1
C11_Witness ==
    /\ last.op = "onPairingAcceptReceived" /\ last.ret
    /\ Len(C11_Successes(last.out)) = 1
    /\ C11_Successes(last.out)[1].tower_id = 2
    /\ nextTowerId = 3

\* C12 - Offer send failure rollback: when the transport fails to send the
\* Offer, approveNode returns false with no binding attempt active, the
\* coordinator still in DISCOVERY_ACTIVE, the next-id counter unchanged, no
\* binding-started event, and the target's entry in DISCOVERED carrying the
\* offer token it had before the attempt, not the failed attempt's.
C12_OfferSendFailureRollback ==
    [][(/\ last'.op = "approveNode"
        /\ \E i \in 1..Len(last'.out) :
                /\ last'.out[i].ev = "send"
                /\ last'.out[i].msg.type = "OFFER"
                /\ ~last'.out[i].ok)
       => /\ last'.ret = FALSE
          /\ ~bindingActive'
          /\ state' = "DISCOVERY_ACTIVE"
          /\ nextTowerId' = nextTowerId
          /\ \A i \in 1..Len(last'.out) : last'.out[i].ev # "binding-started"
          /\ Present(nodes', last'.arg)
          /\ C5_Entry(nodes', last'.arg).state = "DISCOVERED"
          /\ C5_Entry(nodes', last'.arg).offer_token
                = C5_Entry(nodes, last'.arg).offer_token]_vars

\* C13 - rejectNode for an address present in the discovery table removes
\* that entry, in every coordinator state and whether or not the Reject
\* could be sent; when the address is the one currently binding, the attempt
\* is completed as NODE_REJECTED and the coordinator leaves BINDING.
C13_RejectRemovesEntry ==
    [][(last'.op = "rejectNode" /\ Present(nodes, last'.arg))
       => /\ ~Present(nodes', last'.arg)
          /\ (bindingActive /\ currentBinding.node_mac = last'.arg)
                => /\ Len(C3_Completions(last'.out)) = 1
                   /\ C3_Completions(last'.out)[1].result = "NODE_REJECTED"
                   /\ ~bindingActive'
                   /\ state' # "BINDING"]_vars

\* C14 - on_abort: an Abort from the currently-binding node carrying the
\* attempt's token completes the attempt as NODE_ABORTED and removes that
\* node's entry; one from the binding node carrying another token, when the
\* attempt's token is not 0, returns false and changes nothing; one from any
\* other address leaves the active attempt and the coordinator state alone.
C14_AbortHandling ==
    [][\A m \in FrameMacs, tk \in Tokens :
        onPairingAbortReceived(AbortMsg(m, "TIMEOUT", tk)) =>
          /\ (/\ bindingActive
              /\ currentBinding.node_mac = m
              /\ tk = currentBinding.offer_token)
             => /\ last'.ret
                /\ C3_Completions(last'.out) =
                     <<[ev |-> "binding-completed", mac |-> m,
                        result |-> "NODE_ABORTED",
                        tower_id |-> currentBinding.assigned_tower_id]>>
                /\ ~bindingActive'
                /\ state' # "BINDING"
                /\ ~Present(nodes', m)
          /\ (/\ bindingActive
              /\ currentBinding.node_mac = m
              /\ currentBinding.offer_token # 0
              /\ tk # currentBinding.offer_token)
             => /\ last'.ret = FALSE
                /\ last'.out = <<>>
                /\ UNCHANGED <<nodes, state, nextTowerId, currentBinding,
                               bindingActive, permitJoinDl>>
          /\ (bindingActive /\ currentBinding.node_mac # m)
             => /\ C3_Completions(last'.out) = <<>>
                /\ UNCHANGED <<state, currentBinding, bindingActive>>]_vars

\* the binding node's Abort with the attempt's token was handled
C14_Witness ==
    /\ last.op = "onPairingAbortReceived" /\ last.ret
    /\ Len(C3_Completions(last.out)) = 1
    /\ C3_Completions(last.out)[1].result = "NODE_ABORTED"
    /\ C3_Completions(last.out)[1].mac = last.arg
    /\ ~Present(nodes, last.arg)
    /\ ~bindingActive

\* C15 - A discovery entry in BOUND state is permanent: it stays in the
\* table, in BOUND state, across every advertisement, tick, TTL sweep,
\* clearAll, permit-join open or close and inbound Accept or Abort; only the
\* operator's rejectNode removes it.
C15_BoundIsPermanent ==
    [][\A m \in Macs :
        (/\ Present(nodes, m)
         /\ C5_Entry(nodes, m).state = "BOUND"
         /\ last'.op # "rejectNode")
        => /\ Present(nodes', m)
           /\ C5_Entry(nodes', m).state = "BOUND"]_vars

\* C16 - disablePermitJoin from any coordinator state ends with the
\* coordinator OPERATIONAL, the window cleared, every entry that is not
\* BOUND removed and the BOUND ones kept; an attempt in progress is completed
\* as INTERNAL_ERROR, its binding-completed event coming before the one
\* permit-join-changed(false, 0), which is the operation's last event.
C16_DisablePermitJoin ==
    [][last'.op = "disablePermitJoin" =>
        LET out == last'.out IN
        /\ state' = "OPERATIONAL"
        /\ ~permitJoinDl'.active
        /\ ~bindingActive'
        /\ nodes' = SelectSeq(nodes, LAMBDA n : n.state = "BOUND")
        /\ Len(out) > 0
        /\ out[Len(out)] = [ev |-> "permit-join-changed", enabled |-> FALSE,
                            remaining_ms |-> 0]
        /\ \A i \in 1..(Len(out) - 1) : out[i].ev # "permit-join-changed"
        /\ C3_Completions(out) =
            IF bindingActive
            THEN <<[ev |-> "binding-completed",
                    mac |-> currentBinding.node_mac,
                    result |-> "INTERNAL_ERROR",
                    tower_id |-> currentBinding.assigned_tower_id]>>
            ELSE <<>>]_vars

\* the window was closed over an attempt in progress
C16_Witness ==
    /\ last.op = "disablePermitJoin"
    /\ Len(C3_Completions(last.out)) = 1
    /\ C3_Completions(last.out)[1].result = "INTERNAL_ERROR"
    /\ state = "OPERATIONAL"
    /\ nodes = <<>>

\* C17 - enablePermitJoin(d): from OPERATIONAL or DISCOVERY_ACTIVE it returns
\* true, sets the window to run for min(d, 300000) ms from now and leaves the
\* coordinator in DISCOVERY_ACTIVE; while BINDING it returns false, leaves
\* the coordinator state, the window and the attempt as they were and fires
\* no permit-join-changed event.
C17_EnablePermitJoin ==
    [][\A d \in {2 * BINDING_TIMEOUT_MS, MAX_PERMIT_JOIN_MS + 1} :
        enablePermitJoin(d) =>
            IF state \in {"OPERATIONAL", "DISCOVERY_ACTIVE"}
            THEN /\ last'.ret
                 /\ permitJoinDl' =
                        [startMs |-> now,
                         durationMs |-> IF d > 300000 THEN 300000 ELSE d,
                         active |-> TRUE]
                 /\ state' = "DISCOVERY_ACTIVE"
            ELSE /\ state = "BINDING"
                 /\ last'.ret = FALSE
                 /\ last'.out = <<>>
                 /\ UNCHANGED <<state, permitJoinDl, currentBinding,
                                bindingActive>>]_vars

\* the window was asked for during an attempt
C17_Witness ==
    /\ last.op = "enablePermitJoin" /\ last.ret = FALSE
    /\ state = "BINDING" /\ bindingActive
    /\ permitJoinDl.active

\* --- the node's handlers, one by one (SpecNode) ---
C18_AcceptsIn(out) == SelectSeq(out, LAMBDA e : e.ev = "send" /\ e.msg.type = "ACCEPT")

\* C18 - The node hands an Accept to the transport only in
\* onPairingOfferReceived, for an Offer received while ADVERTISING whose
\* protocol version matches and whose nonce echo is the node's current nonce;
\* the Accept goes to the Offer's coordinator with the Offer's token and
\* short id, and once it is sent the node is in WAITING_CONFIRM with that
\* coordinator, token and id pending.  An Offer received in another state,
\* or with another protocol version, returns false, changes nothing and
\* sends nothing.
C18_Ignored ==
    /\ last'.ret = FALSE
    /\ last'.out = <<>>
    /\ fsm' = fsm
    /\ nvs' = nvs

C18_Accepted ==
    \A v \in Versions, cm \in CoordAddrs, id \in OfferIds,
       n \in Nonces, tk \in Tokens, ok \in BOOLEAN :
        onPairingOfferReceived(AnyOffer(v, cm, id, n, tk), ok) =>
          /\ v = PROTOCOL_VERSION
          /\ n = fsm.currentNonce
          /\ C1_Sends(last'.out) =
                <<[ev |-> "send", to |-> cm,
                   msg |-> [type |-> "ACCEPT", node_mac |-> NodeMac,
                            offer_token |-> tk, accepted_tower_id |-> id],
                   ok |-> ok]>>
          /\ ok => /\ last'.ret
                   /\ fsm'.state = "WAITING_CONFIRM"
                   /\ fsm'.pendingCoordMac = cm
                   /\ fsm'.pendingOfferToken = tk
                   /\ fsm'.pendingTowerId = id

C18_AcceptOnlyForValidOffer ==
    [][/\ C18_AcceptsIn(last'.out) # <<>> => last'.op = "onPairingOfferReceived"
       /\ last'.op = "onPairingOfferReceived" =>
            /\ C18_AcceptsIn(last'.out) # <<>>
                    => (fsm.state = "ADVERTISING" /\ C18_Accepted)
            /\ fsm.state # "ADVERTISING" => C18_Ignored
            /\ \/ C18_Ignored
               \/ \A v \in Versions \ {PROTOCOL_VERSION}, cm \in CoordAddrs,
                     id \in OfferIds, n \in Nonces, tk \in Tokens,
                     ok \in BOOLEAN :
                    ~onPairingOfferReceived(AnyOffer(v, cm, id, n, tk), ok)]_vars

\* a valid Offer from the other coordinator was accepted
C18_Witness ==
    /\ last.op = "onPairingOfferReceived" /\ last.ret
    /\ fsm.state = "WAITING_CONFIRM"
    /\ Len(C18_AcceptsIn(last.out)) = 1
    /\ C18_AcceptsIn(last.out)[1].to = OtherCoordMac
    /\ C18_AcceptsIn(last.out)[1].msg.offer_token = 1
    /\ fsm.pendingCoordMac = OtherCoordMac
    /\ fsm.pendingOfferToken = 1

\* C19 - onPairingConfirmReceived moves the node to BOUND only if the node
\* is in WAITING_CONFIRM, the Confirm's coordinator address and short id
\* equal the pending ones and both credential writes succeeded; it then
\* returns true and pairing-complete(SUCCESS, id) fires with the confirmed
\* id, which is the assigned one.  A Confirm received in any other state
\* returns false, changes no state and writes nothing.
C19_Bound ==
    \A cm \in CoordAddrs, id \in ConfirmIds, okId \in BOOLEAN, okMac \in BOOLEAN :
        onPairingConfirmReceived(AnyConfirm(cm, id), okId, okMac) =>
          /\ fsm.state = "WAITING_CONFIRM"
          /\ cm = fsm.pendingCoordMac
          /\ id = fsm.pendingTowerId
          /\ okId /\ okMac
          /\ last'.ret
          /\ C2_NodeResults(last'.out) =
                <<[ev |-> "pairing-complete", result |-> "SUCCESS",
                   tower_id |-> id]>>
          /\ fsm'.assignedTowerId = id

C19_ConfirmValidation ==
    [][last'.op = "onPairingConfirmReceived" =>
        /\ (fsm'.state = "BOUND" /\ fsm.state # "BOUND") => C19_Bound
        /\ (fsm'.state = "BOUND") = (fsm.state = "BOUND" \/ last'.ret)
        /\ fsm.state # "WAITING_CONFIRM"
            => /\ last'.ret = FALSE
               /\ last'.out = <<>>
               /\ fsm' = fsm
               /\ nvs' = nvs]_vars

\* a matching Confirm bound the node with id 1
C19_Witness ==
    /\ last.op = "onPairingConfirmReceived" /\ last.ret
    /\ fsm.state = "BOUND"
    /\ fsm.assignedTowerId = 1
    /\ nvs.tower_id = "1"
    /\ C2_NodeResults(last.out) =
            <<[ev |-> "pairing-complete", result |-> "SUCCESS", tower_id |-> 1]>>

\* C20 - When a credential write fails in onPairingConfirmReceived, for a
\* Confirm that matches the pending coordinator and short id, the result is
\* NVS_ERROR (pairing-complete fires with assigned id 0), the handler
\* returns false and the node does not enter BOUND.
C20_NvsError ==
    [][(last'.op = "onPairingConfirmReceived" /\ fsm.state = "WAITING_CONFIRM")
        => \A id \in ConfirmIds, okId \in BOOLEAN, okMac \in BOOLEAN :
            (/\ id = fsm.pendingTowerId
             /\ ~(okId /\ okMac)
             /\ onPairingConfirmReceived(AnyConfirm(fsm.pendingCoordMac, id),
                                         okId, okMac))
            => /\ last'.ret = FALSE
               /\ C2_NodeResults(last'.out) =
                    <<[ev |-> "pairing-complete", result |-> "NVS_ERROR",
                       tower_id |-> 0]>>
               /\ fsm'.state # "BOUND"
               /\ fsm'.assignedTowerId = fsm.assignedTowerId]_vars

\* the write of the id went through, the write of the address failed
C20_Witness ==
    /\ last.op = "onPairingConfirmReceived" /\ last.ret = FALSE
    /\ C2_NodeResults(last.out) =
            <<[ev |-> "pairing-complete", result |-> "NVS_ERROR", tower_id |-> 0]>>
    /\ fsm.state = "UNPAIRED"
    /\ nvs.tower_id = "1"
    /\ nvs.coord_mac = ""

\* --- the node over reboots (SpecBoot) ---
\* C21 - Credentials survive a reboot: once onPairingConfirmReceived has
\* completed with SUCCESS (the node is BOUND or OPERATIONAL), a restart - a
\* fresh state machine calling begin over the same store - ends in BOUND
\* with the same assigned short id and sends nothing.
C21_CredentialsSurviveReboot ==
    [][(last'.op = "node.restart" /\ fsm.state \in {"BOUND", "OPERATIONAL"})
        => /\ fsm'.state = "BOUND"
           /\ fsm'.assignedTowerId = fsm.assignedTowerId
           /\ C1_Sends(last'.out) = <<>>]_vars

\* --- the node's handlers, continued (SpecNode) ---
\* C22 - onPairingRejectReceived completes the pairing as REJECTED (node to
\* UNPAIRED) only when the node is ADVERTISING or WAITING_CONFIRM and the
\* Reject's token, if not 0, equals the pending offer token; a Reject whose
\* non-zero token differs from the pending one, or that arrives in any other
\* state, returns false and leaves the node as it was.
C22_RejectValidation ==
    [][last'.op = "onPairingRejectReceived" =>
        \A tk \in Tokens :
            onPairingRejectReceived(AnyReject(coordinatorMac, "TIMEOUT", tk)) =>
              /\ C2_NodeResults(last'.out) # <<>>
                    => /\ fsm.state \in {"ADVERTISING", "WAITING_CONFIRM"}
                       /\ tk # 0 => tk = fsm.pendingOfferToken
                       /\ C2_NodeResults(last'.out) =
                            <<[ev |-> "pairing-complete", result |-> "REJECTED",
                               tower_id |-> 0]>>
                       /\ fsm'.state = "UNPAIRED"
              /\ (\/ fsm.state \notin {"ADVERTISING", "WAITING_CONFIRM"}
                  \/ (tk # 0 /\ tk # fsm.pendingOfferToken))
                    => /\ last'.ret = FALSE
                       /\ last'.out = <<>>
                       /\ fsm' = fsm
                       /\ nvs' = nvs]_vars

C24_RoundTrip ==
    [][LET size == CASE wire'.tx.type = "ADVERTISEMENT" -> 22
                     [] wire'.tx.type = "OFFER" -> 23
                     [] wire'.tx.type = "ACCEPT" -> 13
                     [] wire'.tx.type = "CONFIRM" -> 26
                     [] wire'.tx.type \in {"REJECT", "ABORT"} -> 12
                     [] OTHER -> 0
       IN
       /\ (last'.op = "toBinary" /\ last'.arg >= size)
            => /\ last'.ret = TRUE
               /\ Len(wire'.buffer) = size
               /\ wire'.intact
       /\ (last'.op = "fromBinary" /\ wire.intact /\ wire.rx.type = wire.tx.type)
            => /\ last'.ret = TRUE
               /\ [wire'.rx EXCEPT !.ts = 0] = [wire.tx EXCEPT !.ts = 0]
       /\ (last'.op = "createFromBinary" /\ wire.intact)
            => /\ last'.ret = TRUE
               /\ [wire'.rx EXCEPT !.ts = 0] = [wire.tx EXCEPT !.ts = 0]
       /\ (last'.op = "fromBinary" /\ wire.rx.type = wire.tx.type
             /\ Len(wire.buffer) < size)
            => last'.ret = FALSE]_vars

\* a Confirm with a two-byte id and a 16-byte key came back identical from
\* its 26 bytes, decoded at a later time than it was built
C24_Witness ==
    /\ last.op = "fromBinary"
    /\ last.ret = TRUE
    /\ wire.intact
    /\ Len(wire.buffer) = 26
    /\ wire.rx.type = "CONFIRM"
    /\ wire.rx.tower_id = 65535
    /\ wire.rx.encryption_key = SampleKey
    /\ wire.rx.ts # wire.tx.ts
    /\ [wire.rx EXCEPT !.ts = 0] = [wire.tx EXCEPT !.ts = 0]


\* C25: fromBinary returns false, and createFromBinary returns no message,
\* whenever the buffer is shorter than the kind's fixed size or its first
\* byte is not the kind's marker; the target message then keeps every field,
\* and neither state machine nor the discovery table changes.
C25_DecodeFailureClean ==
    [][/\ (last'.op = "fromBinary"
            /\ (\/ Len(wire.buffer) < BINARY_SIZE(wire.rx.type)
                \/ wire.buffer[1] # Marker(wire.rx.type)))
            => /\ last'.ret = FALSE
               /\ wire'.rx = wire.rx
               /\ UNCHANGED <<coordVars, nodeVars, net>>
       /\ (last'.op = "createFromBinary"
            /\ (\/ Len(wire.buffer) < 1
                \/ \A k \in Kinds :
                      \/ wire.buffer[1] # Marker(k)
                      \/ Len(wire.buffer) < BINARY_SIZE(k)))
            => /\ last'.ret = FALSE
               /\ wire'.rx = NullMsg
               /\ UNCHANGED <<coordVars, nodeVars, net>>]_vars

\* an intact 12-byte Reject was offered to an Abort object, which refused it
\* on the marker and kept its constructor values
C25_Witness ==
    /\ last.op = "fromBinary"
    /\ last.ret = FALSE
    /\ wire.intact
    /\ wire.tx.type = "REJECT"
    /\ Len(wire.buffer) = 12
    /\ wire.rx.type = "ABORT"
    /\ wire.rx.offer_token = 0
    /\ wire.rx.reason_code = 8


\* C26 (advertising cadence): a tick of an Advertising node sends an
\* advertisement exactly when the time elapsed since the advertisement was
\* scheduled has reached the delay drawn for it, which is the decision an
\* unbounded clock gives, also when millis() wraps in between.
C26_AdvDue ==
    LET base == IF fsm.nextAdvMs = fsm.advStartMs THEN fsm.advStartMs
                ELSE fsm.lastAdvMs
    IN  U32Sub(now, base) >= U32Sub(fsm.nextAdvMs, base)

C26_WraparoundSafety ==
    [][(last'.op = "node.tick" /\ fsm.state = "ADVERTISING"
            /\ fsm'.state = "ADVERTISING")
        => ((C1_Sends(last'.out) # <<>>) <=> C26_AdvDue)]_vars


C27_Started(out) == SelectSeq(out, LAMBDA e : e.ev = "binding-started")

\* C27: binding-started and binding-completed alternate per attempt.  A call
\* emits at most one of them; binding-started is emitted only with no attempt
\* outstanding and opens one; binding-completed is emitted only with an
\* attempt outstanding, names that attempt's node, closes it, clears the
\* transient attempt and leaves the coordinator in DiscoveryActive (window
\* still running) or Operational; the attempt is opened and closed by
\* nothing else, and its node does not change in between.
C27_StartedThenCompleted ==
    [][/\ Len(C27_Started(last'.out)) + Len(C3_Completions(last'.out)) <= 1
       /\ C27_Started(last'.out) # <<>>
            => /\ ~bindingActive
               /\ bindingActive'
               /\ currentBinding'.node_mac = C27_Started(last'.out)[1].mac
       /\ C3_Completions(last'.out) # <<>>
            => /\ bindingActive
               /\ ~bindingActive'
               /\ C3_Completions(last'.out)[1].mac = currentBinding.node_mac
               /\ C3_Completions(last'.out)[1].result \in
                    {"SUCCESS", "TIMEOUT", "NODE_REJECTED", "NODE_ABORTED",
                     "INTERNAL_ERROR"}
               /\ currentBinding'.node_mac = ZeroMac
               /\ currentBinding'.offer_token = 0
               /\ state' = IF running(permitJoinDl', now') THEN "DISCOVERY_ACTIVE"
                           ELSE "OPERATIONAL"
       /\ (~bindingActive /\ bindingActive') => C27_Started(last'.out) # <<>>
       /\ (bindingActive /\ ~bindingActive') => C3_Completions(last'.out) # <<>>
       /\ (bindingActive /\ bindingActive')
            => currentBinding'.node_mac = currentBinding.node_mac]_vars

\* an attempt for node 1 that was started has just been completed by timeout
C27_Witness ==
    /\ C3_Completions(last.out) # <<>>
    /\ C3_Completions(last.out)[1].result = "TIMEOUT"
    /\ C3_Completions(last.out)[1].mac = 1
    /\ ~bindingActive
    /\ state = "DISCOVERY_ACTIVE"


\* the tokens of the attempts that have terminated
C28_SpentTokens ==
    hist.issued \ (IF bindingActive THEN {currentBinding.offer_token} ELSE {})

\* C28 - Offer tokens are single-use.  With every approve drawing a token
\* not drawn before, an Accept that completes an attempt carries the token
\* of that attempt, never the token of an attempt that has terminated; an
\* Accept that carries a spent token, and any Accept arriving when no attempt
\* is outstanding (a second delivery after success included), is refused and
\* changes nothing.
C28_SingleUseTokens ==
    [][last'.op = "onPairingAcceptReceived"
        => /\ ~bindingActive
                => /\ last'.ret = FALSE
                   /\ last'.out = <<>>
                   /\ UNCHANGED coordVars
           /\ bindingActive
                => \A tk \in TokenSpace, id \in TowerIds, ok \in BOOLEAN :
                      onPairingAcceptReceived(AcceptMsg(last'.arg, tk, id), ok)
                        => IF tk \in C28_SpentTokens
                           THEN /\ last'.ret = FALSE
                                /\ last'.out = <<>>
                                /\ UNCHANGED coordVars
                           ELSE C3_Completions(last'.out) # <<>>
                                    => tk = currentBinding.offer_token]_vars

\* the node is bound after a second attempt; the first attempt's token is
\* spent, and an Accept has just been refused
C28_Witness ==
    /\ last.op = "onPairingAcceptReceived"
    /\ last.ret = FALSE
    /\ ~bindingActive
    /\ Cardinality(hist.issued) >= 2
    /\ Present(nodes, NodeMac)
    /\ C5_Entry(nodes, NodeMac).state = "BOUND"


\* C29 - Accept send failure rollback: when the Accept for a valid Offer is
\* not taken by the transport, onPairingOfferReceived returns false and the
\* node is Advertising again with no pending coordinator address, token or
\* short id recorded.
C29_AcceptSendFailureRollback ==
    [][(/\ last'.op = "onPairingOfferReceived"
        /\ fsm.state = "ADVERTISING"
        /\ C18_AcceptsIn(last'.out) # <<>>
        /\ ~C18_AcceptsIn(last'.out)[1].ok)
        => /\ last'.ret = FALSE
           /\ fsm'.state = "ADVERTISING"
           /\ fsm'.pendingCoordMac = ZeroMac
           /\ fsm'.pendingOfferToken = 0
           /\ fsm'.pendingTowerId = 0]_vars


\* the known "msg" values and their kinds
C30_Known ==
    {<<"join_request", "JOIN_REQUEST">>,
     <<"join_accept", "JOIN_ACCEPT">>,
     <<"set_light", "SET_LIGHT">>,
     <<"node_status", "NODE_STATUS">>,
     <<"ack", "ACK">>,
     <<"tower_join_request", "TOWER_JOIN_REQUEST">>,
     <<"tower_join_accept", "TOWER_JOIN_ACCEPT">>,
     <<"tower_telemetry", "TOWER_TELEMETRY">>,
     <<"tower_command", "TOWER_COMMAND">>,
     <<"reservoir_telemetry", "RESERVOIR_TELEMETRY">>,
     <<"pairing_advertisement", "PAIRING_ADVERTISEMENT">>,
     <<"pairing_offer", "PAIRING_OFFER">>,
     <<"pairing_accept", "PAIRING_ACCEPT">>,
     <<"pairing_confirm", "PAIRING_CONFIRM">>,
     <<"pairing_reject", "PAIRING_REJECT">>,
     <<"pairing_abort", "PAIRING_ABORT">>,
     <<"ota_begin", "OTA_BEGIN">>,
     <<"ota_chunk", "OTA_CHUNK">>,
     <<"ota_chunk_ack", "OTA_CHUNK_ACK">>,
     <<"ota_abort", "OTA_ABORT">>,
     <<"ota_complete", "OTA_COMPLETE">>}

\* C30 - JSON message-type dispatch: getMessageType returns the matching
\* kind for every known "msg" value and ERROR for an unknown value, a missing
\* field and text that does not parse; createMessage returns no message for
\* text that does not parse.
C30_JsonDispatch ==
    /\ last.op \in {"getMessageType", "createMessage"}
        => IF wire.json.valid /\ (\E p \in C30_Known : p[1] = wire.json.msg)
           THEN <<wire.json.msg, wire.kind>> \in C30_Known
           ELSE wire.kind = "ERROR"
    /\ (last.op = "createMessage" /\ ~wire.json.valid)
        => /\ wire.rx = NullMsg
           /\ last.ret = FALSE

\* createMessage has just been given text that does not parse
C30_Witness ==
    /\ last.op = "createMessage"
    /\ ~wire.json.valid
    /\ wire.kind = "ERROR"
    /\ wire.rx = NullMsg

\* getMessageType has just recognised a pairing Offer
C30_WitnessKnown ==
    /\ last.op = "getMessageType"
    /\ wire.json.msg = "pairing_offer"
    /\ wire.kind = "PAIRING_OFFER"


\* C31 - Permit-join never stays open indefinitely: with tick called fairly
\* and the clock advancing, a coordinator in DiscoveryActive is eventually
\* Operational again; a tick takes it there only once the window's deadline
\* has passed, and then as disable_permit_join does: the deadline is cleared
\* and permit-join-changed(false, 0) is emitted.
C31_WindowCloses ==
    /\ (state = "DISCOVERY_ACTIVE") ~> (state = "OPERATIONAL")
    /\ [][(last'.op = "tick" /\ state = "DISCOVERY_ACTIVE"
                /\ state' = "OPERATIONAL")
            => /\ expired(permitJoinDl, now)
               /\ permitJoinDl.durationMs <= MAX_PERMIT_JOIN_MS
               /\ ~permitJoinDl'.active
               /\ \E i \in 1..Len(last'.out) :
                     /\ last'.out[i].ev = "permit-join-changed"
                     /\ ~last'.out[i].enabled
                     /\ last'.out[i].remaining_ms = 0]_vars

\* a tick has just closed a window whose deadline had passed
C31_Witness ==
    /\ last.op = "tick"
    /\ state = "OPERATIONAL"
    /\ ~permitJoinDl.active
    /\ permitJoinDl.durationMs = DISCOVERY_TTL_MS
    /\ U32Sub(now, permitJoinDl.startMs) >= permitJoinDl.durationMs
    /\ \E i \in 1..Len(last.out) : last.out[i].ev = "permit-join-changed"


\* C32 - Advertising is bounded and not retried: with tick called fairly a
\* node that is Advertising and gets no valid Offer is eventually Unpaired;
\* the tick that finds 5 minutes elapsed since startAdvertising ends the
\* attempt with result Timeout and sends nothing, an earlier tick leaves the
\* node Advertising; and an Unpaired node sends no frame and stays Unpaired
\* under every operation but startAdvertising.
C32_AdvertisingBounded ==
    /\ (fsm.state = "ADVERTISING") ~> (fsm.state = "UNPAIRED")
    /\ [][(last'.op = "node.tick" /\ fsm.state = "ADVERTISING")
            => IF U32Sub(now, fsm.advStartMs) >= ADV_TIMEOUT_MS
               THEN /\ fsm'.state = "UNPAIRED"
                    /\ C1_Sends(last'.out) = <<>>
                    /\ Len(C2_NodeResults(last'.out)) = 1
                    /\ C2_NodeResults(last'.out)[1].result = "TIMEOUT"
               ELSE /\ fsm'.state = "ADVERTISING"
                    /\ C2_NodeResults(last'.out) = <<>>]_vars
    /\ [][(fsm.state = "UNPAIRED" /\ last'.op # "millis"
                /\ last'.op # "startAdvertising")
            => /\ fsm'.state = "UNPAIRED"
               /\ C1_Sends(last'.out) = <<>>]_vars

\* the advertising window has just run out in a tick, after advertisements
\* were sent
C32_Witness ==
    /\ last.op = "node.tick"
    /\ fsm.state = "UNPAIRED"
    /\ fsm.sequenceNum > 0
    /\ U32Sub(now, fsm.advStartMs) >= ADV_TIMEOUT_MS
    /\ Len(C2_NodeResults(last.out)) = 1
    /\ C2_NodeResults(last.out)[1].result = "TIMEOUT"


\* the positions of the entries that are not Bound and were last seen more
\* than the TTL ago
C33_Stale ==
    {i \in 1..Len(nodes) :
        /\ nodes[i].state # "BOUND"
        /\ U32Sub(now, nodes[i].last_seen_ms) > DISCOVERY_TTL_MS}

\* C33 - clearExpired removes exactly the entries that are not Bound and
\* whose last accepted advertisement is more than 30000 ms old, raises one
\* node-expired event for each of them and nothing else, so that the count
\* it returns is their number, and leaves every other entry as it was and
\* in its place.
C33_SweepExact ==
    [][last'.op = "discovery.tick" =>
        /\ Len(nodes') = Len(nodes) - Cardinality(C33_Stale)
        /\ \A i \in 1..Len(nodes) :
            IF i \in C33_Stale
            THEN /\ \A j \in 1..Len(nodes') : nodes'[j].mac # nodes[i].mac
                 /\ Cardinality({k \in 1..Len(last'.out) :
                        /\ last'.out[k].ev = "node-expired"
                        /\ last'.out[k].mac = nodes[i].mac}) = 1
            ELSE nodes'[i - Cardinality({s \in C33_Stale : s < i})] = nodes[i]
        /\ Len(last'.out) = Cardinality(C33_Stale)
        /\ \A k \in 1..Len(last'.out) : last'.out[k].ev = "node-expired"]_vars

\* a sweep has just removed an entry and kept a Bound entry of the same age
C33_Witness ==
    /\ last.op = "discovery.tick"
    /\ Len(last.out) >= 1
    /\ \E i \in 1..Len(nodes) :
        /\ nodes[i].state = "BOUND"
        /\ U32Sub(now, nodes[i].last_seen_ms) > DISCOVERY_TTL_MS


\* the edges of the node's state machine: <<from, to, operation>>
C34_Edges ==
    ({"INIT"} \X {"BOUND", "UNPAIRED"} \X {"node.begin"})
    \cup {<<"UNPAIRED", "ADVERTISING", "startAdvertising">>,
          <<"ADVERTISING", "WAITING_CONFIRM", "onPairingOfferReceived">>,
          <<"WAITING_CONFIRM", "BOUND", "onPairingConfirmReceived">>,
          <<"BOUND", "OPERATIONAL", "enterOperational">>}
    \cup ({"ADVERTISING", "WAITING_CONFIRM"} \X {"UNPAIRED"}
            \X {"node.tick", "onPairingRejectReceived", "cancelPairing",
                "onPairingOfferReceived", "onPairingConfirmReceived"})
    \cup ({"INIT", "ADVERTISING", "WAITING_CONFIRM", "BOUND", "OPERATIONAL"}
            \X {"UNPAIRED"} \X {"reset"})

\* C34 - The node's state changes only along the edges of C34_Edges, each by
\* the operation named there; reset ends in Unpaired with the persisted
\* credentials cleared; startAdvertising from any state but Unpaired and
\* enterOperational from any state but Bound change nothing.
C34_NodeEdges ==
    [][/\ fsm'.state # fsm.state
            => <<fsm.state, fsm'.state, last'.op>> \in C34_Edges
       /\ last'.op = "reset" => (fsm'.state = "UNPAIRED" /\ nvs' = NvsInit)
       /\ (last'.op = "startAdvertising" /\ fsm.state # "UNPAIRED")
            => (fsm' = fsm /\ nvs' = nvs /\ last'.out = <<>> /\ ~last'.ret)
       /\ (last'.op = "enterOperational" /\ fsm.state # "BOUND")
            => (fsm' = fsm /\ nvs' = nvs /\ last'.out = <<>>)]_vars

\* enterOperational has just been called on a node that is not Bound
C34_Witness ==
    /\ last.op = "enterOperational"
    /\ fsm.state = "WAITING_CONFIRM"

\* a handshake has run to Operational and the node was reset from there
C34_WitnessReset ==
    /\ last.op = "reset"
    /\ fsm.state = "UNPAIRED"
    /\ \E i \in 1..Len(last.out) :
        last.out[i].ev = "state-changed" /\ last.out[i].old = "OPERATIONAL"


\* C35 - OfferReceived is momentary: no operation of the node returns with
\* the node in OFFER_RECEIVED, so between operations the node's state is
\* never OFFER_RECEIVED.
C35_OfferReceivedMomentary == fsm.state # "OFFER_RECEIVED"

\* an Offer was taken and its Accept could not be sent: the node passed
\* through OFFER_RECEIVED and is Advertising again
C35_Witness ==
    /\ last.op = "onPairingOfferReceived"
    /\ fsm.state = "ADVERTISING"
    /\ \E i \in 1..Len(last.out) :
        last.out[i].ev = "state-changed" /\ last.out[i].new = "OFFER_RECEIVED"


\* C36 - The firmware version shown for a discovered node is the triple that
\* packFirmwareVersion encoded into the advertisement's firmware_version:
\* whenever an entry holds packFirmwareVersion(major, minor, patch), its
\* firmwareString is "major.minor.patch"; and unpackFirmwareVersion of the
\* entry's field returns the triple.
C36_FirmwareVersionShown ==
    \A i \in 1..Len(nodes) :
        \A major \in {0, 1, 127}, minor \in {0, 2, 255},
           patch \in {0, 3, 256, 65535} :
            nodes[i].firmware_version = packFirmwareVersion(major, minor, patch)
            => /\ firmwareString(nodes[i])
                    = ToString(major) \o "." \o ToString(minor) \o "."
                        \o ToString(patch)
               /\ unpackFirmwareVersion(nodes[i].firmware_version)
                    = [major |-> major, minor |-> minor, patch |-> patch]


\* C37 - Between operations the coordinator is in BINDING if and only if a
\* binding attempt is active; the attempt is the single currentBinding, and
\* an active attempt names a node.  A failed approveNode, a completed
\* binding and disablePermitJoin are operations like any other.
C37_BindingIffActive ==
    /\ (state = "BINDING") <=> bindingActive
    /\ bindingActive => currentBinding.node_mac # ZeroMac


\* approveNode has just failed to send its Offer: no attempt is active and
\* the coordinator is not in BINDING
C37_Witness ==
    /\ last.op = "approveNode"
    /\ ~last.ret
    /\ ~bindingActive
    /\ state = "DISCOVERY_ACTIVE"
    /\ \E i \in 1..Len(last.out) : last.out[i].ev = "send" /\ ~last.out[i].ok

\* a binding attempt is active in BINDING
C37_WitnessActive == state = "BINDING" /\ bindingActive /\ last.op = "approveNode"


\* C38 - Agreement under an unreliable transport: whenever the node is Bound
\* (or Operational) with assigned id k, the coordinator has completed a
\* binding attempt for the node's address with result Success and id k.  The
\* coordinator's counter starts at 1 and moves only when an attempt for the
\* node completes with Success, by one and past the id of that attempt, so
\* the ids of the attempts completed with Success are those from 1 up to
\* but not including nextTowerId.
C38_Agreement ==
    /\ [](fsm.state \in {"BOUND", "OPERATIONAL"}
            => (fsm.assignedTowerId >= 1 /\ fsm.assignedTowerId < nextTowerId))
    /\ [][nextTowerId' # nextTowerId
            => /\ state = "BINDING" /\ bindingActive /\ ~bindingActive'
               /\ currentBinding.node_mac = NodeMac
               /\ currentBinding.assigned_tower_id = nextTowerId
               /\ nextTowerId' = nextTowerId + 1
               /\ Frame(NodeMac, ConfirmMsg(nextTowerId)) \in net']_vars

\* the node has been bound by the copy of a Confirm, after the first attempt
\* timed out at the node, and that copy is still on the air
C38_Witness ==
    /\ fsm.state = "BOUND"
    /\ fsm.assignedTowerId = 1
    /\ now > 0
    /\ \E f \in net : f.msg.type = "CONFIRM" /\ DOMAIN f # DOMAIN Frame(0, 0)


\* C39 - If the permit-join deadline has passed while the coordinator is in
\* BINDING, the operation that completes the binding closes the window as
\* disablePermitJoin does: the coordinator is OPERATIONAL, the deadline is
\* cleared, every entry that is not Bound is gone from the table, and
\* permit-join-changed(false, 0) is emitted.
C39_WindowClosedAfterBinding ==
    [][(/\ state = "BINDING" /\ bindingActive
        /\ expired(permitJoinDl, now)
        /\ ~bindingActive')
        => /\ state' = "OPERATIONAL"
           /\ ~permitJoinDl'.active
           /\ \A i \in 1..Len(nodes') : nodes'[i].state = "BOUND"
           /\ \E i \in 1..Len(last'.out) :
                /\ last'.out[i].ev = "permit-join-changed"
                /\ ~last'.out[i].enabled
                /\ last'.out[i].remaining_ms = 0]_vars


\* C40 - The coordinator never stays in BINDING forever: with tick called
\* fairly and the clock advancing, a coordinator in BINDING eventually is
\* not; an attempt ends with exactly one binding-completed event, for its
\* node, whose result is Success, Timeout, NodeRejected, NodeAborted or
\* InternalError; and a tick that finds the attempt older than
\* BINDING_TIMEOUT_MS ends it with Timeout and leaves BINDING.
C40_BindingTerminates ==
    /\ (state = "BINDING") ~> (state # "BINDING")
    /\ [][(bindingActive /\ ~bindingActive')
            => /\ Len(C3_Completions(last'.out)) = 1
               /\ C3_Completions(last'.out)[1].mac = currentBinding.node_mac
               /\ C3_Completions(last'.out)[1].result \in
                    {"SUCCESS", "TIMEOUT", "NODE_REJECTED", "NODE_ABORTED",
                     "INTERNAL_ERROR"}]_vars
    /\ [][(/\ last'.op = "tick"
           /\ state = "BINDING"
           /\ U32Sub(now, currentBinding.started_ms) > BINDING_TIMEOUT_MS)
            => /\ state' # "BINDING"
               /\ ~bindingActive'
               /\ C3_Completions(last'.out)[1].result = "TIMEOUT"]_vars

\* a tick has just ended an attempt that no frame answered, two clock steps
\* after it began
C40_Witness ==
    /\ last.op = "tick"
    /\ state # "BINDING"
    /\ U32Sub(now, currentBinding.started_ms) = 2 * BINDING_TIMEOUT_MS
    /\ Len(C3_Completions(last.out)) = 1
    /\ C3_Completions(last.out)[1].result = "TIMEOUT"

====
